---- MODULE Spec2Model ----
(***************************************************************************)
(* The rule-execution core of the linter (src/src/linter.ts): lintFile,    *)
(* lintAndFix, getFailures, prepareRules and applyRules with its context   *)
(* callbacks addFailure and isDisabled.  Rules, the rule loader, the       *)
(* processor and the updateFile callback are collaborators: a rule's calls *)
(* into the context are steps of the model, the other collaborators'       *)
(* answers are inputs.                                                     *)
(***************************************************************************)
EXTENDS Integers, Sequences, FiniteSets, TLC

\* ------------------------------------------------------------------ bounds
NRules == 2         \* configured rules
MaxIter == 2        \* largest iteration cap passed to lintAndFix
MaxReports == 2     \* addFailure calls a pass may see
MaxPos == 3         \* largest text position

VARIABLES
    method,         \* the public method called: "lintFile" or "lintAndFix"
    config,         \* EffectiveConfiguration.rules, in Map order; the rule's name is its index
    iterations,     \* lintAndFix parameter
    processor,      \* TRUE iff a processor is passed to lintAndFix
    updProgram,     \* TRUE iff the updateFile callback returns a program
    pc,             \* "idle", "rule", "loop", "done", "thrown"
    file,           \* sourceFile of the current pass
    program,        \* TRUE iff a ts.Program is at hand
    content,        \* lintAndFix: content
    totalFixes,     \* lintAndFix: totalFixes
    i,              \* lintAndFix: loop counter
    failures,       \* lintAndFix: failures (the list returned when pc = "done")
    rules,          \* applyRules: the prepared rules of the pass
    k,              \* applyRules: position of the for-of loop in rules
    current,        \* applyRules: the closure variables ruleName, severity, options, ctor
    result,         \* applyRules: result
    disables,       \* applyRules: disables (the lazily computed DisableMap)
    reportCalls,    \* addFailure calls made in the pass
    convertedAst,   \* applyRules: TRUE iff convertedAst is defined
    container,      \* applyRules: which singleton bindings of the container hold a value
    passes,         \* history: getFailures calls
    passLog,        \* history: the length of the list each finished getFailures call returned
    convertCalls,   \* history: convertAst calls of the pass
    updateCalls,    \* history: updateFile calls
    postCalls,      \* history: processor.postprocess calls
    disableCalls,   \* history: getDisabledRanges calls of the pass
    executed,       \* history: names of the rules resolved in the pass, in order
    raw,            \* history: what applyRules returned in the last pass
    lastCall,       \* history: the last addFailure call and whether it was suppressed
    roundLog,       \* history: one record per fix round
    deferred,       \* history: failures whose fix the last round skipped
    owed,           \* history: deferred failures reported again before the cap, not yet applied
    lastUpdate,     \* history: arguments of the last updateFile call
    warned,         \* history: names of the rules logger.warn was called for in the pass, in order
    disableArgs,    \* history: arguments of the getDisabledRanges calls of the pass
    constructed,    \* history: per rule resolved in the pass, its name and the options it was given
    received,       \* history: per tree view resolved in the pass, the view and the conversion it came from
    queried,        \* history: TRUE iff a rule called context.isDisabled itself in the pass
    linted          \* history: the sourceFile and program arguments of the last getFailures call

\* The access-control resolver (src/unnamed/part_000): one call of
\* getRestrictedElementAccessError.
VARIABLES
    ancestors,      \* the ancestors of node, from node.parent up to the SourceFile
    baseOf,         \* per class, its base class (0: none)
    symbol,         \* symbol.declarations
    expression,     \* kind of node.expression: "this", "super" or "other"
    lhsType,        \* lhsType: the set of classes the type refers to (one: a class type)
    at,             \* position in the call: "idle", the walk that runs, "returned", "crashed"
    walk,           \* the walk's node: 0 is node, n is ancestors[n]
    walked,         \* history: the steps of the walks, [fn, from, to]
    outcome         \* the value returned

\* The return-await rule (src/unnamed/part_001): one call of apply().
VARIABLES
    ast,            \* the WrappedAst below the SourceFile, in document order: wrap n is ast[n]
    inTryCatch,     \* this.inTryCatch
    stack,          \* the calls of iterate and visitNode that have not returned, innermost first
    rulePc,         \* "idle", "running", "returned", "failed", "unused"
    bodies,         \* history: the async functions whose children line 67 visited, in order
    checked,        \* history: the return statements passed to checkReturnExpression, in order
    reported        \* history: the return statements addFailure was called for, in order

linterVars == <<method, config, iterations, processor, updProgram, pc, file, program,
          content, totalFixes, i, failures, rules, k, current, result, disables,
          reportCalls, convertedAst, container, passes, passLog, convertCalls, updateCalls, postCalls, disableCalls, executed, raw,
          lastCall, roundLog, deferred, owed, lastUpdate, warned, disableArgs, constructed,
          received, queried, linted>>

resolverVars == <<ancestors, baseOf, symbol, expression, lhsType, at, walk, walked, outcome>>

ruleVars == <<ast, inTryCatch, stack, rulePc, bodies, checked, reported>>

vars == <<linterVars, resolverVars, ruleVars>>

inputs == <<method, config, iterations, processor, updProgram>>
loopVars == <<content, totalFixes, i, updateCalls, roundLog, deferred, owed, lastUpdate>>

\* ------------------------------------------------------------------ values
Range(s) == {s[n] : n \in DOMAIN s}

RECURSIVE SumSeq(_)
SumSeq(s) == IF s = <<>> THEN 0 ELSE Head(s) + SumSeq(Tail(s))

\* A text: how many fixes were applied to the original, and whether it went
\* through the processor's updateSource.
OriginalText == [edits |-> 0, transformed |-> FALSE]

\* A Replacement, by its span [start, end).
ReplA == [start |-> 0, end |-> 2]
ReplB == [start |-> 1, end |-> 3]
ReplC == [start |-> 2, end |-> 3]

\* The fix argument of addFailure: fix?: Replacement | Replacement[].
FixUndefined == [kind |-> "undefined", reps |-> <<>>]
FixSingle(r) == [kind |-> "single", reps |-> <<r>>]
FixArray(s) == [kind |-> "array", reps |-> s]

\* Failure.fix: undefined, or {replacements}.
NoFix == [defined |-> FALSE, replacements |-> <<>>]

TextRanges == {r \in [pos : 0..MaxPos, end : 0..MaxPos] : r.pos <= r.end}

\* The addFailure calls a rule may make.
FixCalls ==
    {[pos |-> 1, end |-> 2, fix |-> f] :
        f \in {FixUndefined, FixSingle(ReplA), FixSingle(ReplB), FixArray(<<>>), FixArray(<<ReplC>>)}}
RangeCalls == {[pos |-> r.pos, end |-> r.end, fix |-> FixUndefined] : r \in TextRanges}
OneCall == {[pos |-> 1, end |-> 2, fix |-> FixSingle(ReplA)]}

\* Disabled spans the inline directives of a file may hold for a rule.
SpanA == [pos |-> 1, end |-> 3]
SpanB == [pos |-> 0, end |-> 1]

NoRule == [ruleName |-> 0, severity |-> "off", options |-> 0,
           ctor |-> [requiresTypeInformation |-> FALSE, supports |-> "absent", inject |-> <<>>,
                     calls |-> {}]]
NoMap == [computed |-> FALSE, map |-> <<>>]
NoCall == [ruleName |-> 0, pos |-> 0, end |-> 0, fix |-> FixUndefined, suppressed |-> FALSE]
\* Per binding, the conversion (1, 2, ...) whose view the singleton holds; 0: none yet.
NoViews == [wrapped |-> 0, flattened |-> 0]
NoUpdate == [content |-> OriginalText, range |-> "none",
             returned |-> [file |-> "none", program |-> FALSE]]
NoPass == [sourceFile |-> "none", program |-> FALSE]
NoOutcome == [message |-> "pending", class |-> {}]

\* No rule is applied.
RuleUnused ==
    /\ ast = <<>>
    /\ inTryCatch = FALSE
    /\ stack = <<>>
    /\ rulePc = "unused"
    /\ bodies = <<>>
    /\ checked = <<>>
    /\ reported = <<>>

\* ------------------------------------------------------------------ variants
\* Each operator below is a variant of the operator defined under the same
\* comment further down, changed the way a slip in that code would change it.
preparedOf(cfg, names) ==
    [m \in DOMAIN names |->
        [ruleName |-> names[m], options |-> cfg[names[m]].options,
         severity |-> cfg[names[m]].severity, ctor |-> cfg[names[m]].ctor]]

\* prepareRules without the check of lines 117-120
prepareRulesIgnoresSupports(cfg, sourceFile, prog) ==
    preparedOf(cfg, SelectSeq([n \in 1..Len(cfg) |-> n],
                              LAMBDA n : /\ cfg[n].severity # "off"
                                         /\ cfg[n].loads
                                         /\ ~(~prog /\ cfg[n].ctor.requiresTypeInformation)))

\* prepareRules without the check of lines 108-109
prepareRulesIgnoresOff(cfg, sourceFile, prog) ==
    preparedOf(cfg, SelectSeq([n \in 1..Len(cfg) |-> n],
                              LAMBDA n : /\ cfg[n].loads
                                         /\ ~(~prog /\ cfg[n].ctor.requiresTypeInformation)
                                         /\ cfg[n].ctor.supports # "false"))

\* isDisabled with closed comparisons in line 203
isDisabledInclusive(d, name, range) ==
    IF name \notin DOMAIN d.map THEN FALSE
    ELSE \E disabledRange \in d.map[name] :
            range.end >= disabledRange.pos /\ range.pos <= disabledRange.end

\* line 198 without the assignment to disables
disablesNeverStored(d, rs, sourceFile) ==
    [computed |-> FALSE,
     map |-> [n \in {rs[m].ruleName : m \in DOMAIN rs} |-> sourceFile.directives[n]]]

\* line 198 asking for the first rule's ranges only
disableArgsFirstRule(d, args, rs, sourceFile) ==
    IF d.computed THEN args
    ELSE Append(args, [ruleNames |-> {rs[1].ruleName}, sourceFile |-> sourceFile])

\* lines 152 and 157 without the test of convertedAst
resolveViewAlwaysConverts(st, view) ==
    IF st.container[view] # 0
    THEN [st EXCEPT !.received = Append(@, [view |-> view, object |-> st.container[view],
                                            sourceFile |-> st.sourceFile])]
    ELSE [st EXCEPT !.convertedAst = TRUE,
                    !.container = [@ EXCEPT ![view] = st.convertCalls + 1],
                    !.convertCalls = st.convertCalls + 1,
                    !.received = Append(@, [view |-> view, object |-> st.convertCalls + 1,
                                            sourceFile |-> st.sourceFile])]

\* line 164 reading the first rule at every position
loadRegisterFirst(rs, n) == rs[1]

\* lines 109-119 without the case of a class decorator
staticSuperLevelsNoClassCase(kind, parentKind) ==
    IF kind \in {"ComputedPropertyName", "ExpressionWithTypeArguments"} THEN 3
    ELSE IF kind = "Decorator"
    THEN IF parentKind = "Parameter" THEN 4 ELSE 3
    ELSE 1

\* lines 87-98 without the test of line 98
typeOfThisParameterUnchecked(this, baseClasses) ==
    IF this.param \in {"none", "untyped"} THEN {}
    ELSE IF this.param = "typeParameter" /\ ~this.constrained THEN {}
    ELSE this.type

\* line 43 without the comparison of the ends
outsideStart(pos, end, classPos, classEnd) == pos < classPos

\* line 34 with some for every
abstractInSomeDeclaration(sym) == \E n \in DOMAIN sym : "abstract" \in sym[n].modifiers

\* isFunctionScopeBoundary without the arrow function
isFunctionScopeBoundaryNoArrow(n) ==
    \/ n.kind \in {"FunctionExpression", "Constructor", "ModuleDeclaration",
                   "ClassDeclaration", "ClassExpression", "EnumDeclaration", "MethodDeclaration",
                   "FunctionDeclaration", "GetAccessor", "SetAccessor"}
    \/ n.kind = "SourceFile" /\ n.module

\* line 78 keeping the program at hand when updateFile returns none
assignUpdateKeepsProgram(upd, oldFile, oldProgram) ==
    [file |-> upd.file, program |-> upd.program \/ oldProgram]

\* line 175 with unshift for push
pushFailureFront(res, f) == <<f>> \o res

\* every rule resolved before the first apply()
resolvedUpFront(rs, n) == [m \in DOMAIN rs |-> rs[m].ruleName]

\* line 55 with <= for <
withinCapInclusive(n, cap) == n <= cap

\* line 58 keeping only the first fix
fixesOfFirst(fs) ==
    LET withFix == SelectSeq(fs, LAMBDA f : f.fix.defined)
    IN  [n \in DOMAIN withFix \cap {1} |-> withFix[n].fix]

\* lines 56-62 without the second break
roundNeededIgnoresFixes(fs) == Len(fs) # 0

\* line 66 with = for +=
addFixedOverwrite(total, fixed) == fixed

\* line 66 counting the round, not its fixes
addFixedOne(total, fixed) == total + 1

\* the warning of lines 113-116 raised before the check of lines 111-112
RECURSIVE warnsBeforeLoad(_, _, _)
warnsBeforeLoad(cfg, n, prog) ==
    IF n > Len(cfg) THEN <<>>
    ELSE LET e == cfg[n]
             rest == warnsBeforeLoad(cfg, n + 1, prog)
         IN  IF e.severity = "off" THEN rest
             ELSE IF ~prog /\ e.ctor.requiresTypeInformation THEN <<n>> \o rest
             ELSE rest

\* ------------------------------------------------------------------ prepareRules
RECURSIVE prepareRulesFrom(_, _, _, _)
prepareRulesFrom(cfg, n, sourceFile, prog) ==
    IF n > Len(cfg) THEN <<>>
    ELSE LET e == cfg[n]
             rest == prepareRulesFrom(cfg, n + 1, sourceFile, prog)
         IN  IF e.severity = "off" THEN rest
             ELSE IF ~e.loads THEN rest
             ELSE IF ~prog /\ e.ctor.requiresTypeInformation THEN rest
             ELSE IF e.ctor.supports # "absent" /\ e.ctor.supports = "false" THEN rest
             ELSE <<[ruleName |-> n, options |-> e.options, severity |-> e.severity,
                     ctor |-> e.ctor]>> \o rest

prepareRules(cfg, sourceFile, prog) == prepareRulesFrom(cfg, 1, sourceFile, prog)

\* prepareRules, lines 107-116: the logger.warn calls of the loop, from entry n on.
RECURSIVE warnsFrom(_, _, _)
warnsFrom(cfg, n, prog) ==
    IF n > Len(cfg) THEN <<>>
    ELSE LET e == cfg[n]
             rest == warnsFrom(cfg, n + 1, prog)
         IN  IF e.severity = "off" THEN rest
             ELSE IF ~e.loads THEN rest
             ELSE IF ~prog /\ e.ctor.requiresTypeInformation THEN <<n>> \o rest
             ELSE rest

\* ------------------------------------------------------------------ applyRules
\* getDisabledRanges(ruleNames, sourceFile): the spans the file's directives
\* hold for each requested rule.
getDisabledRanges(ruleNames, sourceFile) ==
    [computed |-> TRUE, map |-> [n \in ruleNames |-> sourceFile.directives[n]]]

\* line 198: rules.map((r) => r.ruleName)
ruleNamesOf(rs) == {rs[n].ruleName : n \in DOMAIN rs}

\* isDisabled, lines 197-198: the map as it is after the call.
disablesAfterQuery(d, rs, sourceFile) ==
    IF d.computed THEN d ELSE getDisabledRanges(ruleNamesOf(rs), sourceFile)

\* isDisabled, lines 197-198: the getDisabledRanges calls after the call.
disableArgsAfter(d, args, rs, sourceFile) ==
    IF d.computed THEN args
    ELSE Append(args, [ruleNames |-> ruleNamesOf(rs), sourceFile |-> sourceFile])

\* isDisabled, lines 199-205: the verdict for range under rule name.
isDisabled(d, name, range) ==
    IF name \notin DOMAIN d.map THEN FALSE
    ELSE \E disabledRange \in d.map[name] :
            range.end > disabledRange.pos /\ range.pos < disabledRange.end

\* addFailure, lines 187-193.
normalizeFix(fix) ==
    IF fix.kind = "undefined" THEN NoFix
    ELSE IF fix.kind = "single" THEN [defined |-> TRUE, replacements |-> fix.reps]
    ELSE IF Len(fix.reps) = 0 THEN NoFix
    ELSE [defined |-> TRUE, replacements |-> fix.reps]

\* addFailure, lines 175-194: the Failure built.
makeFailure(cur, pos, end, fix) ==
    [ruleName |-> cur.ruleName, severity |-> cur.severity, start |-> pos, end |-> end,
     fix |-> normalizeFix(fix)]

\* line 175: result.push
pushFailure(res, f) == Append(res, f)

\* addFailure, lines 172-195: result after the call c made while cur executes.
addFailure(res, d, cur, c) ==
    IF isDisabled(d, cur.ruleName, [pos |-> c.pos, end |-> c.end]) THEN res
    ELSE pushFailure(res, makeFailure(cur, c.pos, c.end, c.fix))

\* line 164: the values the destructuring assignment loads for position n.
loadRegister(rs, n) == rs[n]

\* lines 164-166: the rules resolved once the for-of loop is at position n.
resolved(rs, n) == [m \in 1..n |-> rs[m].ruleName]

\* lines 151-160: one resolution of the WrappedAst or FlattenedAst binding, a
\* singleton whose factory calls convertAst unless convertedAst is defined.
resolveView(st, view) ==
    IF st.container[view] # 0
    THEN [st EXCEPT !.received = Append(@, [view |-> view, object |-> st.container[view],
                                            sourceFile |-> st.sourceFile])]
    ELSE LET calls == IF st.convertedAst THEN st.convertCalls ELSE st.convertCalls + 1
         IN  [st EXCEPT !.convertedAst = TRUE,
                        !.container = [@ EXCEPT ![view] = calls],
                        !.convertCalls = calls,
                        !.received = Append(@, [view |-> view, object |-> calls,
                                                sourceFile |-> st.sourceFile])]

\* line 166: container.resolve(ctor) resolves the constructor's parameters in order.
RECURSIVE resolveViews(_, _)
resolveViews(st, inject) ==
    IF inject = <<>> THEN st ELSE resolveViews(resolveView(st, Head(inject)), Tail(inject))

\* ------------------------------------------------------------------ lintAndFix helpers
\* line 55: the loop condition
withinCap(n, cap) == n < cap

\* line 58
fixesOf(fs) ==
    LET withFix == SelectSeq(fs, LAMBDA f : f.fix.defined)
    IN  [n \in DOMAIN withFix |-> withFix[n].fix]

\* lines 56-62: neither break is taken
roundNeeded(fs) == Len(fs) # 0 /\ Len(fixesOf(fs)) # 0

\* line 66
addFixed(total, fixed) == total + fixed

replacementsOverlap(a, b) == a.start < b.end /\ b.start < a.end

fixesConflict(f, g) ==
    \E r \in Range(f.replacements), q \in Range(g.replacements) : replacementsOverlap(r, q)

\* applyFixes: the indices of the fixes applied, a fix being skipped when one of
\* its replacements overlaps a replacement of a fix applied before it.
RECURSIVE appliedFixes(_, _)
appliedFixes(fixes, n) ==
    IF n = 0 THEN {}
    ELSE LET before == appliedFixes(fixes, n - 1)
         IN  IF \E j \in before : fixesConflict(fixes[n], fixes[j]) THEN before
             ELSE before \cup {n}

applyFixes(source, fixes) ==
    LET applied == appliedFixes(fixes, Len(fixes))
    IN  [fixed |-> Cardinality(applied),
         result |-> [edits |-> source.edits + Cardinality(applied), transformed |-> FALSE],
         range |-> "fixed"]

\* processor.updateSource(content, range).transformed
updateSource(source) == [source EXCEPT !.transformed = TRUE]

\* updateFile(newSource, fixedRange)
updateFileResult(old, newSource, withProgram) ==
    [file |-> [old EXCEPT !.text = newSource, !.rev = old.rev + 1], program |-> withProgram]

\* line 78: the destructuring assignment ({program, file} = updateFile(...))
assignUpdate(upd, oldFile, oldProgram) == [file |-> upd.file, program |-> upd.program]

\* processor.postprocess(failures): the lists a processor may return.
RECURSIVE subSeqs(_)
subSeqs(s) ==
    IF s = <<>> THEN {<<>>}
    ELSE LET rest == subSeqs(Tail(s))
         IN  rest \cup {<<Head(s)>> \o t : t \in rest}

postprocess(fs) == subSeqs(fs)

\* ------------------------------------------------------------------ actions
\* getFailures returns fs to its caller: lintFile returns it, lintAndFix assigns
\* it to failures (lines 54 and 79) and is at the loop head.
Deliver(fs) ==
    /\ failures' = fs
    /\ passLog' = Append(passLog, Len(fs))
    /\ pc' = IF method = "lintFile" THEN "done" ELSE "loop"

\* lines 164-166: the loop variables are assigned from rs[n] and its constructor
\* is resolved.
Resolve(rs, n, st) ==
    LET after == resolveViews(st, rs[n].ctor.inject)
        register == loadRegister(rs, n)
    IN  /\ k' = n
        /\ current' = register
        /\ executed' = resolved(rs, n)
        /\ convertedAst' = after.convertedAst
        /\ container' = after.container
        /\ convertCalls' = after.convertCalls
        /\ received' = after.received
        /\ constructed' = Append(st.constructed,
                                 [ruleName |-> rs[n].ruleName, options |-> register.options])

\* getFailures, lines 95-101, and applyRules up to the first rule's resolution.
EnterPass(sourceFile, prog) ==
    LET rs == prepareRules(config, sourceFile, prog)
    IN  /\ passes' = passes + 1
        /\ linted' = [sourceFile |-> sourceFile, program |-> prog]
        /\ rules' = rs
        /\ result' = <<>>
        /\ disables' = NoMap
        /\ reportCalls' = 0
        /\ postCalls' = 0
        /\ disableCalls' = 0
        /\ lastCall' = NoCall
        /\ raw' = <<>>
        /\ warned' = warnsFrom(config, 1, prog)
        /\ disableArgs' = <<>>
        /\ queried' = FALSE
        /\ IF rs = <<>>
           THEN /\ k' = 0
                /\ current' = NoRule
                /\ executed' = <<>>
                /\ convertedAst' = FALSE
                /\ container' = NoViews
                /\ convertCalls' = 0
                /\ received' = <<>>
                /\ constructed' = <<>>
                /\ Deliver(<<>>)
           ELSE /\ Resolve(rs, 1, [convertedAst |-> FALSE, container |-> NoViews,
                                   convertCalls |-> 0, received |-> <<>>,
                                   constructed |-> <<>>, sourceFile |-> sourceFile])
                /\ pc' = "rule"
                /\ UNCHANGED <<failures, passLog>>

\* lintFile, lines 40-42
LintFile ==
    /\ pc = "idle"
    /\ method = "lintFile"
    /\ EnterPass(file, program)
    /\ UNCHANGED <<inputs, file, program, loopVars>>
    /\ UNCHANGED resolverVars
    /\ UNCHANGED ruleVars

\* lintAndFix, lines 53-54
LintAndFix ==
    /\ pc = "idle"
    /\ method = "lintAndFix"
    /\ EnterPass(file, program)
    /\ UNCHANGED <<inputs, file, program, loopVars>>
    /\ UNCHANGED resolverVars
    /\ UNCHANGED ruleVars

\* The executing rule calls context.addFailure (lines 172-195).
RuleAddFailure ==
    /\ pc = "rule"
    /\ reportCalls < MaxReports
    /\ \E c \in current.ctor.calls :
          LET d == disablesAfterQuery(disables, rules, file)
          IN  /\ disables' = d
              /\ disableCalls' = IF disables.computed THEN disableCalls ELSE disableCalls + 1
              /\ disableArgs' = disableArgsAfter(disables, disableArgs, rules, file)
              /\ result' = addFailure(result, d, current, c)
              /\ lastCall' = [ruleName |-> current.ruleName, pos |-> c.pos, end |-> c.end,
                              fix |-> c.fix, suppressed |-> result' = result]
    /\ reportCalls' = reportCalls + 1
    /\ UNCHANGED <<inputs, pc, file, program, failures, rules, k, current, convertedAst,
                   container, passes, linted, passLog, convertCalls, postCalls, executed, raw,
                   loopVars, warned, constructed, received, queried>>
    /\ UNCHANGED resolverVars
    /\ UNCHANGED ruleVars

\* The executing rule calls context.isDisabled (lines 196-206).
RuleIsDisabled ==
    /\ pc = "rule"
    /\ disables' = disablesAfterQuery(disables, rules, file)
    /\ disableCalls' = IF disables.computed THEN disableCalls ELSE disableCalls + 1
    /\ disableArgs' = disableArgsAfter(disables, disableArgs, rules, file)
    /\ queried' = TRUE
    /\ UNCHANGED <<inputs, pc, file, program, failures, rules, k, current, result,
                   reportCalls, convertedAst, container, passes, linted, passLog, convertCalls,
                   postCalls, executed, raw, lastCall, loopVars, warned, constructed,
                   received>>
    /\ UNCHANGED resolverVars
    /\ UNCHANGED ruleVars

\* apply() of the executing rule returns: the for-of loop of lines 164-167 takes
\* the next rule, or applyRules returns and getFailures (line 102) with it.
RuleReturns ==
    /\ pc = "rule"
    /\ IF k < Len(rules)
       THEN /\ Resolve(rules, k + 1, [convertedAst |-> convertedAst, container |-> container,
                                      convertCalls |-> convertCalls, received |-> received,
                                      constructed |-> constructed, sourceFile |-> file])
            /\ UNCHANGED <<pc, failures, passLog, raw, postCalls>>
       ELSE /\ raw' = result
            /\ IF ~(method = "lintAndFix" /\ processor) \/ Len(result) = 0
               THEN /\ Deliver(result)
                    /\ UNCHANGED postCalls
               ELSE /\ postCalls' = postCalls + 1
                    /\ \E out \in postprocess(result) : Deliver(out)
            /\ UNCHANGED <<k, current, executed, convertedAst, container, convertCalls,
                           received, constructed>>
    /\ UNCHANGED <<inputs, file, program, rules, result, disables, reportCalls, passes, linted,
                   disableCalls, lastCall, loopVars, warned, disableArgs, queried>>
    /\ UNCHANGED resolverVars
    /\ UNCHANGED ruleVars

\* The executing rule's constructor or apply() throws: nothing in applyRules,
\* getFailures, lintFile or lintAndFix catches it.
RuleThrows ==
    /\ pc = "rule"
    /\ pc' = "thrown"
    /\ UNCHANGED <<inputs, file, program, failures, rules, k, current, result, disables,
                   reportCalls, convertedAst, container, passes, linted, passLog, convertCalls,
                   postCalls, disableCalls, executed, raw, lastCall, loopVars, warned,
                   disableArgs, constructed, received, queried>>
    /\ UNCHANGED resolverVars
    /\ UNCHANGED ruleVars

\* lintAndFix, lines 55-62 and 81-85: the loop ends and the result is returned.
LintAndFixReturns ==
    /\ pc = "loop"
    /\ ~(withinCap(i, iterations) /\ roundNeeded(failures))
    /\ pc' = "done"
    /\ UNCHANGED <<inputs, file, program, failures, rules, k, current, result, disables,
                   reportCalls, convertedAst, container, passes, linted, passLog, convertCalls,
                   postCalls, disableCalls, executed, raw, lastCall, loopVars, warned,
                   disableArgs, constructed, received, queried>>
    /\ UNCHANGED resolverVars
    /\ UNCHANGED ruleVars

\* lintAndFix, lines 55-79: one fix round, up to the first rule of the next pass.
FixRound ==
    /\ pc = "loop"
    /\ withinCap(i, iterations)
    /\ roundNeeded(failures)
    /\ LET fixes == fixesOf(failures)
           fixed == applyFixes(content, fixes)
           fixable == SelectSeq(failures, LAMBDA f : f.fix.defined)
           offered == [n \in DOMAIN fixable |-> fixable[n].fix]
           applied == appliedFixes(offered, Len(offered))
       IN  /\ totalFixes' = addFixed(totalFixes, fixed.fixed)
           /\ content' = fixed.result
           /\ roundLog' = Append(roundLog,
                  [failures |-> Len(failures), fixes |-> Len(fixes), fixed |-> fixed.fixed,
                   result |-> fixed.result,
                   retried |-> Cardinality(Range(fixable) \cap deferred),
                   conflictFree |-> \A m, n \in DOMAIN offered :
                                        m # n => ~fixesConflict(offered[m], offered[n])])
           /\ deferred' = {fixable[n] : n \in DOMAIN fixable \ applied}
           /\ owed' = (owed \cup (Range(fixable) \cap deferred)) \ {fixable[n] : n \in applied}
           /\ \E changeRange \in IF processor THEN {"processor", "calculated"} ELSE {fixed.range} :
                 LET newSource == IF processor THEN updateSource(fixed.result) ELSE fixed.result
                     upd == updateFileResult(file, newSource, updProgram)
                     next == assignUpdate(upd, file, program)
                 IN  /\ lastUpdate' = [content |-> newSource, range |-> changeRange,
                                       returned |-> upd]
                     /\ file' = next.file
                     /\ program' = next.program
                     /\ EnterPass(next.file, next.program)
    /\ updateCalls' = updateCalls + 1
    /\ i' = i + 1
    /\ UNCHANGED inputs
    /\ UNCHANGED resolverVars
    /\ UNCHANGED ruleVars

Next ==
    \/ LintFile
    \/ LintAndFix
    \/ RuleAddFailure
    \/ RuleIsDisabled
    \/ RuleReturns
    \/ RuleThrows
    \/ LintAndFixReturns
    \/ FixRound

\* ------------------------------------------------------------------ initial states
ruleEntry(n, c) ==
    [severity |-> c.severity, options |-> n, loads |-> c.loads,
     ctor |-> [requiresTypeInformation |-> c.typed, supports |-> c.supports,
               inject |-> c.inject, calls |-> c.calls]]

configsOver(choices) ==
    {[n \in 1..NRules |-> ruleEntry(n, ch[n])] : ch \in [1..NRules -> choices]}

InitWith(choices, iters, processors, programs, spans) ==
    /\ method \in {"lintFile", "lintAndFix"}
    /\ config \in configsOver(choices)
    /\ iterations \in IF method = "lintFile" THEN {0} ELSE iters
    /\ processor \in IF method = "lintFile" THEN {FALSE} ELSE processors
    /\ updProgram \in IF method = "lintFile" THEN {FALSE} ELSE programs
    /\ program \in programs
    /\ file \in {[text |-> IF processor THEN updateSource(OriginalText) ELSE OriginalText,
                   rev |-> 0, directives |-> d] : d \in [1..NRules -> spans]}
    /\ pc = "idle"
    /\ content = OriginalText
    /\ totalFixes = 0
    /\ i = 0
    /\ failures = <<>>
    /\ rules = <<>>
    /\ k = 0
    /\ current = NoRule
    /\ result = <<>>
    /\ disables = NoMap
    /\ reportCalls = 0
    /\ convertedAst = FALSE
    /\ container = NoViews
    /\ passes = 0
    /\ passLog = <<>>
    /\ convertCalls = 0
    /\ updateCalls = 0
    /\ postCalls = 0
    /\ disableCalls = 0
    /\ executed = <<>>
    /\ raw = <<>>
    /\ lastCall = NoCall
    /\ roundLog = <<>>
    /\ deferred = {}
    /\ owed = {}
    /\ lastUpdate = NoUpdate
    /\ warned = <<>>
    /\ disableArgs = <<>>
    /\ constructed = <<>>
    /\ received = <<>>
    /\ queried = FALSE
    /\ linted = NoPass
    /\ ancestors = <<>>
    /\ baseOf = <<>>
    /\ symbol = <<>>
    /\ expression = "other"
    /\ lhsType = {}
    /\ at = "unused"
    /\ walk = 0
    /\ walked = <<>>
    /\ outcome = NoOutcome
    /\ RuleUnused

\* The fix loop: rules that are on or off and report failures with and without fixes.
LoopChoices ==
    [severity : {"error", "off"}, loads : {TRUE}, typed : {FALSE}, supports : {"absent"},
     inject : {<<"wrapped">>}, calls : {FixCalls}]

Init == InitWith(LoopChoices, 0..MaxIter, BOOLEAN, {TRUE}, {{}, {SpanA}})

Spec == Init /\ [][Next]_vars

\* Rule preparation: every combination of the four conditions, rules that
\* report one fixable failure.
PrepareChoices ==
    [severity : {"error", "off"}, loads : BOOLEAN, typed : BOOLEAN,
     supports : {"absent", "true", "false"}, inject : {<<>>}, calls : {OneCall}]

InitPrepare == InitWith(PrepareChoices, {1}, {TRUE}, BOOLEAN, {{}})

SpecPrepare == InitPrepare /\ [][Next]_vars

\* The updateFile callback: typed and untyped rules, with and without a
\* processor, a program at hand or not, a callback that returns one or not.
UpdateChoices ==
    [severity : {"error"}, loads : {TRUE}, typed : BOOLEAN, supports : {"absent"},
     inject : {<<>>}, calls : {FixCalls}]

InitUpdate == InitWith(UpdateChoices, 0..MaxIter, BOOLEAN, BOOLEAN, {{}})

SpecUpdate == InitUpdate /\ [][Next]_vars

\* Suppression: rules that report every range, files with every combination of
\* the two disabled spans per rule.
SuppressChoices ==
    [severity : {"warning"}, loads : {TRUE}, typed : {FALSE}, supports : {"absent"},
     inject : {<<>>}, calls : {RangeCalls \cup OneCall}]

InitSuppress == InitWith(SuppressChoices, {1}, {FALSE}, {TRUE}, SUBSET {SpanA, SpanB})

SpecSuppress == InitSuppress /\ [][Next]_vars

\* The shared context: rules of two severities whose constructors ask for no
\* tree view, one, or both in either order, and that report one failure.
ViewChoices ==
    [severity : {"error", "warning"}, loads : {TRUE}, typed : {FALSE}, supports : {"absent"},
     inject : {<<>>, <<"wrapped">>, <<"flattened">>, <<"wrapped", "flattened">>,
               <<"flattened", "wrapped">>},
     calls : {OneCall}]

InitViews == InitWith(ViewChoices, {1}, {FALSE}, {TRUE}, {{}, {SpanA}})

SpecViews == InitViews /\ [][Next]_vars

\* ------------------------------------------------------------------ claims
hasFixable(fs) == \E n \in DOMAIN fs : fs[n].fix.defined

\* C1: lintAndFix with cap n makes at most n updateFile calls and at most n + 1
\* passes; a round runs only after a pass that returned a failure with a fix,
\* and the loop stops short of the cap only when the last pass returned no
\* failure with a fix; when the last pass still returns a fixable failure,
\* lintAndFix has made exactly n rounds and returns that non-empty list.
C1_Inv ==
    method = "lintAndFix" =>
        /\ updateCalls <= iterations
        /\ passes <= iterations + 1
        /\ Len(roundLog) = updateCalls
        /\ \A n \in DOMAIN roundLog : roundLog[n].failures > 0 /\ roundLog[n].fixes > 0
        /\ pc = "done" =>
              /\ passes = updateCalls + 1
              /\ updateCalls < iterations => ~hasFixable(failures)
              /\ hasFixable(failures) =>
                    updateCalls = iterations /\ passes = iterations + 1 /\ failures # <<>>

C1_Step ==
    pc = "loop" =>
        IF i < iterations /\ hasFixable(failures)
        THEN updateCalls' = updateCalls + 1 /\ passes' = passes + 1
        ELSE pc' = "done" /\ updateCalls' = updateCalls /\ passes' = passes
                /\ failures' = failures

\* C1: in every state the cap bounds the rounds and passes of lintAndFix as
\* stated above, and every step from the loop head either runs a round or
\* returns the failures of the last pass.
C1_CapBoundsRounds == []C1_Inv /\ [][C1_Step]_vars

C1_Witness ==
    /\ pc = "done"
    /\ iterations = MaxIter
    /\ updateCalls = iterations
    /\ hasFixable(failures)

\* C2 as stated: lintAndFix with iterations = 0 returns the input content,
\* fixes = 0, calls updateFile never, and returns the list lintFile returns,
\* which is what applyRules returned (raw), since lintFile passes no processor.
C2_Original ==
    (pc = "done" /\ method = "lintAndFix" /\ iterations = 0) =>
        /\ content = OriginalText
        /\ totalFixes = 0
        /\ updateCalls = 0
        /\ failures = raw

\* C2 amended: with iterations = 0 lintAndFix makes one pass and no round,
\* returns the input content and fixes = 0; its failures are the list lintFile
\* returns when no processor is given or that list is empty, and otherwise what
\* processor.postprocess made of that list.  lintFile returns the list as is.
C2_ZeroIterations ==
    /\ (pc = "done" /\ method = "lintFile") => failures = raw /\ postCalls = 0
    /\ (pc = "done" /\ method = "lintAndFix" /\ iterations = 0) =>
          /\ content = OriginalText
          /\ totalFixes = 0
          /\ updateCalls = 0
          /\ passes = 1
          /\ IF processor /\ raw # <<>>
             THEN postCalls = 1 /\ failures \in postprocess(raw)
             ELSE postCalls = 0 /\ failures = raw

C2_Witness ==
    /\ pc = "done"
    /\ method = "lintAndFix"
    /\ iterations = 0
    /\ processor
    /\ Len(raw) = 2
    /\ failures = raw
    /\ hasFixable(failures)

\* The geometry of a report's range against a disabled span: a non-empty
\* range overlaps a span when they share a character, an empty range when its
\* position is strictly inside the span.
sharesCharacter(r, s) == \E ch \in 0..MaxPos : r.pos <= ch /\ ch < r.end /\ s.pos <= ch /\ ch < s.end
overlapsSpan(r, s) == IF r.pos < r.end THEN sharesCharacter(r, s) ELSE s.pos < r.pos /\ r.pos < s.end
onlyTouches(r, s) == r.end = s.pos \/ r.pos = s.end
whollyInside(r, s) == s.pos <= r.pos /\ r.end <= s.end /\ ~onlyTouches(r, s)
hitsDirective(sourceFile, name, r) == \E s \in sourceFile.directives[name] : overlapsSpan(r, s)

\* C3: a report made while rule R executes is suppressed iff its range overlaps
\* a disabled span of R; a range wholly inside a span of R is never in the
\* result, a range that only shares an endpoint with the spans of R is the
\* failure pushed last; the spans of other rules do not count.
C3_SuppressedIffOverlap ==
    /\ lastCall.ruleName # 0 =>
          LET r == [pos |-> lastCall.pos, end |-> lastCall.end]
              spans == file.directives[lastCall.ruleName]
          IN  /\ lastCall.suppressed <=> \E s \in spans : overlapsSpan(r, s)
              /\ (\E s \in spans : whollyInside(r, s)) => lastCall.suppressed
              /\ (spans # {} /\ \A s \in spans : onlyTouches(r, s)) => ~lastCall.suppressed
              /\ ~lastCall.suppressed =>
                    /\ result # <<>>
                    /\ result[Len(result)].ruleName = lastCall.ruleName
                    /\ result[Len(result)].start = lastCall.pos
                    /\ result[Len(result)].end = lastCall.end
    /\ \A n \in DOMAIN result :
          ~hitsDirective(file, result[n].ruleName, [pos |-> result[n].start, end |-> result[n].end])

C3_Witness ==
    /\ lastCall.suppressed
    /\ lastCall.pos = lastCall.end
    /\ lastCall.ruleName = 2
    /\ file.directives[1] = {}
    /\ Len(result) = 1
    /\ result[1].ruleName = 1
    /\ result[1].start = lastCall.pos
    /\ result[1].end = lastCall.end

\* C4: the prepared rules run one after another in the listed order, and the
\* result holds the unsuppressed reports in the order of the rules and, within
\* a rule, of its calls: each such report is appended once, at the end, and
\* nothing else changes the result during the pass.
C4_Inv ==
    /\ pc = "rule" =>
          /\ k \in DOMAIN rules
          /\ current = rules[k]
          /\ Len(executed) = k
          /\ \A m \in 1..k : executed[m] = rules[m].ruleName
    /\ \A n \in DOMAIN result : \E m \in DOMAIN executed : executed[m] = result[n].ruleName
    /\ \A a, b \in DOMAIN result :
          a < b => \E m, n \in DOMAIN rules :
                      /\ m <= n
                      /\ rules[m].ruleName = result[a].ruleName
                      /\ rules[n].ruleName = result[b].ruleName
    /\ (pc \in {"loop", "done"} /\ rules # <<>>) =>
          /\ raw = result
          /\ executed = [m \in DOMAIN rules |-> rules[m].ruleName]

C4_Step ==
    /\ (passes' = passes /\ reportCalls' = reportCalls + 1) =>
          IF hitsDirective(file, current.ruleName, [pos |-> lastCall'.pos, end |-> lastCall'.end])
          THEN result' = result
          ELSE /\ Len(result') = Len(result) + 1
               /\ SubSeq(result', 1, Len(result)) = result
               /\ LET f == result'[Len(result')]
                  IN  /\ f.ruleName = current.ruleName
                      /\ f.start = lastCall'.pos
                      /\ f.end = lastCall'.end
                      /\ f.fix.defined <=> lastCall'.fix.reps # <<>>
                      /\ f.fix.replacements = lastCall'.fix.reps
    /\ (passes' = passes /\ reportCalls' = reportCalls) => result' = result
    /\ (passes' = passes /\ executed' # executed) =>
          /\ Len(executed') = Len(executed) + 1
          /\ SubSeq(executed', 1, Len(executed)) = executed

\* C4: in every state the rules resolved and the failures collected are in
\* the order of the prepared rules, and every step appends at most one failure,
\* the report just made, at the end of the result.
C4_RuleOrder == []C4_Inv /\ [][C4_Step]_vars

C4_Witness ==
    /\ pc = "loop"
    /\ Len(raw) = 2
    /\ raw[1].ruleName = 1
    /\ raw[2].ruleName = 2
    /\ raw[1].fix # raw[2].fix

\* The four conditions of prepareRules for the configured rule n.
eligible(n) ==
    /\ config[n].severity # "off"
    /\ config[n].loads
    /\ ~(config[n].ctor.requiresTypeInformation /\ ~program)
    /\ config[n].ctor.supports \in {"absent", "true"}

eligibleNames == SelectSeq([n \in 1..NRules |-> n], eligible)

\* C5: the rules executed in a finished pass are exactly the configured rules
\* that are not off, load, do not need type information that is missing, and
\* support the file, in the order of the configuration; while a pass runs, the
\* rules executed so far are a prefix of them.
C5_ExecutedIffEligible ==
    /\ pc \in {"loop", "done"} => executed = eligibleNames
    /\ pc \in {"rule", "thrown"} =>
          /\ Len(executed) <= Len(eligibleNames)
          /\ executed = SubSeq(eligibleNames, 1, Len(executed))

C5_Witness ==
    /\ pc = "loop"
    /\ executed = <<2>>
    /\ config[1].severity # "off"
    /\ config[1].loads
    /\ config[1].ctor.supports = "true"
    /\ config[1].ctor.requiresTypeInformation
    /\ ~program
    /\ config[2].ctor.supports = "true"
    /\ updateCalls = 1

\* C6: a pass over a configuration with no applicable rule returns the empty
\* list, resolves no rule, makes no report, and does not call getDisabledRanges,
\* convertAst or postprocess.
C6_NoRulesNoWork ==
    (pc # "idle" /\ eligibleNames = <<>>) =>
        /\ pc \in {"loop", "done"}
        /\ failures = <<>>
        /\ passLog[Len(passLog)] = 0
        /\ executed = <<>>
        /\ reportCalls = 0
        /\ result = <<>>
        /\ ~disables.computed
        /\ disableCalls = 0
        /\ ~convertedAst
        /\ convertCalls = 0
        /\ postCalls = 0

C6_Witness ==
    /\ pc = "done"
    /\ method = "lintAndFix"
    /\ processor
    /\ passes = 1
    /\ eligibleNames = <<>>
    /\ config[1].severity # "off"
    /\ config[2].severity # "off"

\* C7: the result of lintAndFix has fixes equal to the sum of the counts
\* applyFixes reported round by round, failures equal to what the last pass
\* returned, and content equal to the text the last round's applyFixes
\* produced, the input content when no round ran.
C7_ResultOfLintAndFix ==
    (pc = "done" /\ method = "lintAndFix") =>
        /\ totalFixes = SumSeq([n \in DOMAIN roundLog |-> roundLog[n].fixed])
        /\ content = IF roundLog = <<>> THEN OriginalText ELSE roundLog[Len(roundLog)].result
        /\ Len(passLog) = passes
        /\ Len(failures) = passLog[Len(passLog)]
        /\ IF processor /\ raw # <<>> THEN failures \in postprocess(raw) ELSE failures = raw

C7_Witness ==
    /\ pc = "done"
    /\ processor
    /\ Len(roundLog) = 2
    /\ roundLog[1].fixed = 2
    /\ roundLog[2].fixed = 1
    /\ totalFixes = 3
    /\ failures # <<>>
    /\ content # file.text

spansDisjoint(f, g) ==
    \A r \in Range(f.replacements), q \in Range(g.replacements) :
        r.end <= q.start \/ q.end <= r.start

twoIndependentFixes(fs) ==
    /\ Len(fs) = 2
    /\ fs[1].fix.defined
    /\ fs[2].fix.defined
    /\ spansDisjoint(fs[1].fix, fs[2].fix)

\* C8: when the first pass returns exactly two failures with fixes whose spans
\* do not overlap and the cap is at least 1, round 1 applies both fixes with
\* one updateFile call; when the second pass then returns no failure,
\* lintAndFix returns after 2 passes with fixes = 2 and no failures.
C8_Inv ==
    (/\ pc = "done"
     /\ method = "lintAndFix"
     /\ iterations >= 1
     /\ roundLog # <<>>
     /\ roundLog[1].failures = 2
     /\ roundLog[1].fixes = 2
     /\ roundLog[1].conflictFree
     /\ Len(passLog) >= 2
     /\ passLog[2] = 0) =>
        /\ passes = 2
        /\ updateCalls = 1
        /\ roundLog[1].fixed = 2
        /\ totalFixes = 2
        /\ failures = <<>>

C8_Step ==
    /\ (pc = "loop" /\ passes = 1 /\ iterations >= 1 /\ twoIndependentFixes(failures)) =>
          /\ updateCalls = 0
          /\ updateCalls' = 1
          /\ passes' = 2
          /\ totalFixes' = 2
          /\ roundLog'[1].conflictFree
    /\ (pc = "loop" /\ passes = 2 /\ failures = <<>>) =>
          pc' = "done" /\ passes' = 2 /\ failures' = <<>> /\ totalFixes' = totalFixes

\* C8: two failures with non-overlapping fixes are both applied by round 1,
\* and an empty second pass ends lintAndFix with fixes = 2 after 2 passes.
C8_TwoIndependentFixes == []C8_Inv /\ [][C8_Step]_vars

C8_Witness ==
    /\ pc = "done"
    /\ passes = 2
    /\ roundLog[1].failures = 2
    /\ roundLog[1].fixes = 2
    /\ roundLog[1].conflictFree
    /\ totalFixes = 2
    /\ failures = <<>>

\* C9 as stated: a failure whose fix a round deferred and which the next pass
\* reported again before the cap was reached has had its fix applied by the
\* time lintAndFix returns.
C9_Original == pc = "done" => owed = {}

\* C9 amended: a round applies every fix of the pass's failures, a deferred one
\* reported again included, unless the fix overlaps a fix applied before it in
\* the same round; the fixes applied do not overlap, the others are deferred,
\* and fixes grows by the number of fixes applied.
C9_Step ==
    updateCalls' = updateCalls + 1 =>
        LET fixable == SelectSeq(failures, LAMBDA f : f.fix.defined)
            offered == [n \in DOMAIN fixable |-> fixable[n].fix]
            applied == appliedFixes(offered, Len(offered))
        IN  /\ \A n \in DOMAIN fixable :
                  \/ n \in applied
                  \/ \E j \in applied : j < n /\ ~spansDisjoint(offered[n], offered[j])
            /\ \A m, n \in applied : m # n => spansDisjoint(offered[m], offered[n])
            /\ totalFixes' = totalFixes + Cardinality(applied)
            /\ deferred' = {fixable[n] : n \in DOMAIN fixable \ applied}
            /\ owed' \subseteq deferred' \cup owed

\* C9 amended, over every step: each round applies every offered fix that
\* overlaps no fix applied before it in that round and counts exactly those.
C9_DeferredFixRetried == [][C9_Step]_vars

C9_Witness ==
    /\ pc = "done"
    /\ Len(roundLog) = 2
    /\ roundLog[1].fixes = 2
    /\ roundLog[1].fixed = 1
    /\ roundLog[2].retried = 1
    /\ roundLog[2].fixes = 1
    /\ roundLog[2].fixed = 1
    /\ totalFixes = 2
    /\ owed = {}

\* C10: when the k-th prepared rule throws, no later rule has been resolved,
\* the pass returns no list (the failures collected so far stay in result,
\* lintAndFix's failures keep their value), no updateFile call follows and
\* nothing is returned: the run has ended.
C10_Inv ==
    pc = "thrown" =>
        /\ k \in DOMAIN rules
        /\ executed = [m \in 1..k |-> rules[m].ruleName]
        /\ Len(passLog) = passes - 1
        /\ updateCalls = passes - 1
        /\ passes = 1 => failures = <<>>

C10_Step ==
    /\ pc # "thrown"
    /\ (pc' = "thrown") =>
          /\ pc = "rule"
          /\ failures' = failures
          /\ passLog' = passLog
          /\ updateCalls' = updateCalls
          /\ executed' = executed
          /\ totalFixes' = totalFixes
          /\ content' = content

\* C10: a throw of a rule ends the run where it happened: no later rule is
\* resolved, no list is returned, no round follows, and no step follows it.
C10_ThrowPropagates == []C10_Inv /\ [][C10_Step]_vars

C10_Witness ==
    /\ pc = "thrown"
    /\ method = "lintAndFix"
    /\ passes = 1
    /\ Len(rules) = 2
    /\ k = 2
    /\ result # <<>>
    /\ result[1].ruleName = 1
    /\ failures = <<>>

\* The configured rule n is skipped with a warning: it is on, loads, and
\* requires type information while the pass has no program.
needsWarning(n) ==
    /\ config[n].severity # "off"
    /\ config[n].loads
    /\ config[n].ctor.requiresTypeInformation
    /\ ~program

\* C11: in a pass logger.warn is called exactly once for each configured rule
\* that is on, loads and requires type information while there is no program,
\* in the order of the configuration, and for no other rule (not for one that
\* is off, fails to load or does not support the file); the skips do not end
\* the pass: every eligible rule is still executed, in order.
C11_WarnOncePerTypedRule ==
    pc # "idle" =>
        /\ warned = SelectSeq([n \in 1..NRules |-> n], needsWarning)
        /\ \A n \in 1..NRules :
              (\/ config[n].severity = "off"
               \/ ~config[n].loads
               \/ (~needsWarning(n) /\ config[n].ctor.supports = "false")) =>
                  \A m \in DOMAIN warned : warned[m] # n
        /\ pc \in {"loop", "done"} => executed = eligibleNames
        /\ pc \in {"rule", "thrown"} =>
              /\ Len(executed) <= Len(eligibleNames)
              /\ executed = SubSeq(eligibleNames, 1, Len(executed))

C11_Witness ==
    /\ pc = "done"
    /\ ~program
    /\ config[1].ctor.requiresTypeInformation
    /\ config[1].ctor.supports = "false"
    /\ warned = <<1>>
    /\ executed = <<2>>
    /\ result # <<>>

\* C12 as stated: in a pass in which no rule has made a failure-reporting
\* call, getDisabledRanges has not been invoked.
C12_Original == reportCalls = 0 => disableCalls = 0

\* C12 amended: the disabled-range map is computed by the first call of the
\* pass that consults it, a failure-reporting call or a rule's own isDisabled
\* query, and not before: getDisabledRanges has been invoked (once) iff a rule
\* has reported or queried in the pass.
C12_ComputedOnFirstUse ==
    /\ disables.computed <=> (reportCalls > 0 \/ queried)
    /\ disableCalls = IF reportCalls > 0 \/ queried THEN 1 ELSE 0

C12_Witness ==
    /\ pc = "done"
    /\ rules # <<>>
    /\ reportCalls = 0
    /\ queried
    /\ disableCalls = 1
    /\ failures = <<>>

\* C19, in every state: getDisabledRanges has been invoked at most once in the
\* pass, with the names of all prepared rules of the pass and the pass's source
\* file (the file the last updateFile call returned, in a later pass), and the
\* map in use is the one that call returned.
C19_Inv ==
    /\ disableCalls <= 1
    /\ Len(disableArgs) = disableCalls
    /\ disables.computed <=> disableCalls = 1
    /\ \A n \in DOMAIN disableArgs :
          /\ disableArgs[n].ruleNames = {rules[m].ruleName : m \in DOMAIN rules}
          /\ disableArgs[n].sourceFile = file
          /\ disableArgs[n].sourceFile.rev = updateCalls
    /\ disables.computed =>
          /\ DOMAIN disables.map = {rules[m].ruleName : m \in DOMAIN rules}
          /\ \A n \in DOMAIN disables.map : disables.map[n] = file.directives[n]

\* C19, in every step: within a pass a computed map is never replaced, however
\* many reports and queries follow; a new pass starts without a map.
C19_Step ==
    /\ (passes' = passes /\ disables.computed) =>
          disables' = disables /\ disableCalls' = disableCalls /\ disableArgs' = disableArgs
    /\ passes' # passes => (~disables'.computed /\ disableCalls' = 0 /\ disableArgs' = <<>>)

\* C19: getDisabledRanges runs at most once per pass, for all prepared rules
\* and the pass's file; the map is neither recomputed within the pass nor
\* carried over to the next pass.
C19_DisableMapOncePerPass == []C19_Inv /\ [][C19_Step]_vars

C19_Witness ==
    /\ pc = "done"
    /\ passes = 2
    /\ Len(rules) = 2
    /\ reportCalls = 2
    /\ queried
    /\ disableCalls = 1
    /\ disableArgs[1].ruleNames = {1, 2}
    /\ disableArgs[1].sourceFile.rev = 1

\* The tree views requested by the constructors of the first n rules of rs.
RECURSIVE requestsOf(_, _)
requestsOf(rs, n) == IF n = 0 THEN <<>> ELSE requestsOf(rs, n - 1) \o rs[n].ctor.inject

\* C13: within a pass every view request of every rule resolved so far has been
\* served, convertAst has run once if there was a request and not at all if
\* there was none, on the pass's source file, and every request of either view
\* was served from that one conversion, so every rule received the same
\* wrapped object and the same flattened object.
C13_ViewsConvertedOnce ==
    LET asked == requestsOf(rules, Len(executed))
    IN  /\ Len(received) = Len(asked)
        /\ \A n \in DOMAIN received :
              /\ received[n].view = asked[n]
              /\ received[n].object = 1
              /\ received[n].sourceFile = file
        /\ convertCalls = IF asked = <<>> THEN 0 ELSE 1
        /\ convertedAst <=> asked # <<>>
        /\ \A v \in {"wrapped", "flattened"} :
              container[v] = IF \E n \in DOMAIN asked : asked[n] = v THEN 1 ELSE 0

C13_Witness ==
    /\ pc = "done"
    /\ passes = 2
    /\ Len(rules) = 2
    /\ rules[1].ctor.inject = <<"flattened", "wrapped">>
    /\ rules[2].ctor.inject = <<"wrapped", "flattened">>
    /\ Len(received) = 4
    /\ convertCalls = 1

\* C20, in every state: while a rule runs the register holds the values of the
\* prepared rule at the loop's position, each rule resolved so far was
\* constructed with its own options, and every failure in the result has the
\* severity configured for the rule it names.
C20_Inv ==
    /\ pc \in {"rule", "thrown"} =>
          /\ k \in DOMAIN rules
          /\ current.ruleName = rules[k].ruleName
          /\ current.severity = rules[k].severity
          /\ current.options = rules[k].options
          /\ current.ctor = rules[k].ctor
    /\ Len(constructed) = Len(executed)
    /\ \A m \in DOMAIN constructed :
          /\ constructed[m].ruleName = rules[m].ruleName
          /\ constructed[m].options = config[rules[m].ruleName].options
    /\ \A n \in DOMAIN result :
          result[n].severity = config[result[n].ruleName].severity

\* C20, in every step: a report made while the rule at position k runs is
\* suppressed iff it hits a disabled span of that rule, and is otherwise
\* appended with that rule's name and severity.
C20_Step ==
    (passes' = passes /\ reportCalls' = reportCalls + 1) =>
        /\ k' = k
        /\ lastCall'.ruleName = rules[k].ruleName
        /\ IF hitsDirective(file, rules[k].ruleName, [pos |-> lastCall'.pos, end |-> lastCall'.end])
           THEN result' = result
           ELSE /\ result' # <<>>
                /\ result'[Len(result')].ruleName = rules[k].ruleName
                /\ result'[Len(result')].severity = rules[k].severity

\* C20: every failure carries the name and severity of the rule that was
\* running when it was reported, suppression is looked up under that rule's
\* name, and every rule is constructed with its own options.
C20_RegisterHoldsRunningRule == []C20_Inv /\ [][C20_Step]_vars

C20_Witness ==
    /\ pc = "done"
    /\ method = "lintFile"
    /\ config[1].severity = "error"
    /\ config[2].severity = "warning"
    /\ file.directives[1] = {SpanA}
    /\ file.directives[2] = {}
    /\ reportCalls = 2
    /\ Len(result) = 1
    /\ result[1].ruleName = 2
    /\ result[1].severity = "warning"
    /\ constructed = <<[ruleName |-> 1, options |-> 1], [ruleName |-> 2, options |-> 2]>>

\* ------------------------------------------------------------------ C21
typedRules == {n \in DOMAIN config : config[n].ctor.requiresTypeInformation}

C21_Inv ==
    /\ updateCalls = Len(roundLog)
    /\ updateCalls = i
    /\ passes > 0 =>
          /\ passes = updateCalls + 1
          /\ linted = [sourceFile |-> file, program |-> program]
    /\ updateCalls > 0 =>
          /\ content = roundLog[Len(roundLog)].result
          /\ lastUpdate.content = (IF processor THEN [content EXCEPT !.transformed = TRUE] ELSE content)
          /\ lastUpdate.range \in (IF processor THEN {"processor", "calculated"} ELSE {"fixed"})
          /\ linted.sourceFile = lastUpdate.returned.file
          /\ linted.program = lastUpdate.returned.program
          /\ linted.sourceFile.text = lastUpdate.content
          /\ linted.sourceFile.rev = updateCalls
          /\ linted.program = updProgram
          /\ ~updProgram =>
                /\ Range(executed) \cap typedRules = {}
                /\ Range(warned) = typedRules

C21_Step ==
    /\ updateCalls' # updateCalls =>
          /\ updateCalls' = updateCalls + 1
          /\ Len(roundLog') = Len(roundLog) + 1
          /\ passes' = passes + 1
          /\ linted'.sourceFile.rev = file.rev + 1
    /\ passes' # passes /\ passes > 0 => updateCalls' = updateCalls + 1
    /\ lastUpdate' # lastUpdate => updateCalls' = updateCalls + 1

\* C21: every fix round of lintAndFix calls updateFile once, with the text the
\* round's applyFixes produced, or the processor's transformation of it, and
\* the change range that goes with it; the pass that follows is given the file
\* and the program that call returned, and without a returned program no rule
\* that requires type information runs in it.
C21_PassRunsOnUpdatedFile == []C21_Inv /\ [][C21_Step]_vars

\* A program is at hand for the first pass, updateFile returns none, and the
\* typed rule 1 is left out of the second pass.
C21_Witness ==
    /\ pc = "done"
    /\ method = "lintAndFix"
    /\ updateCalls = 1
    /\ passes = 2
    /\ ~updProgram
    /\ ~program
    /\ typedRules = {1}
    /\ warned = <<1>>
    /\ executed = <<2>>
    /\ passLog[1] = 2
    /\ lastUpdate.returned.file = file
    /\ file.rev = 1

\* ================================================================== access-control resolver
NClasses == 3       \* classes of the program: 1..NClasses
MaxDepth == 5       \* most ancestors the access node has, the SourceFile included

Classes == 1..NClasses

\* A type is the set of classes it refers to: one class is that class's instance
\* type (a type reference whose target is the class), two or more an
\* intersection of class types, none any other type.
isTypeReference(t) == Cardinality(t) = 1
isIntersectionType(t) == Cardinality(t) >= 2
getBaseTypes(t) == {{baseOf[c]} : c \in {d \in t : Cardinality(t) = 1 /\ baseOf[d] # 0}}

\* getInstanceTypeOfClassLikeDeclaration
getInstanceTypeOfClassLikeDeclaration(class) == {class}

\* lines 178-180
isIdentical(a, b) == a = b

\* lines 182-184: a class type's symbol has the class's declaration
typeContainsDeclaration(type, declaration) == declaration \in type

applyCheck(check, t, needle) ==
    IF check = "isIdentical" THEN isIdentical(t, needle) ELSE typeContainsDeclaration(t, needle)

\* lines 165-176
RECURSIVE hasBase(_, _, _)
hasBase(t, needle, check) ==
    \/ isTypeReference(t) /\ applyCheck(check, t, needle)
    \/ \E b \in getBaseTypes(t) : hasBase(b, needle, check)
    \/ isIntersectionType(t) /\ \E c \in t : hasBase({c}, needle, check)

\* lines 226-230
getModifierFlagsOfSymbol(sym) == UNION {sym[n].modifiers : n \in DOMAIN sym}

\* lines 134-146
hasNonPrototypeDeclaration(sym) ==
    \E n \in DOMAIN sym :
        sym[n].kind \notin {"MethodDeclaration", "MethodSignature", "GetAccessor", "SetAccessor"}

\* line 34
abstractInEveryDeclaration(sym) == \A n \in DOMAIN sym : "abstract" \in sym[n].modifiers

\* line 46
declaringClassesOf(sym) == {sym[n].parent : n \in DOMAIN sym}

\* tsutils isFunctionScopeBoundary: the function-like kinds, classes, enums and
\* modules, and a SourceFile that is an external module.
isFunctionScopeBoundary(n) ==
    \/ n.kind \in {"FunctionExpression", "ArrowFunction", "Constructor", "ModuleDeclaration",
                   "ClassDeclaration", "ClassExpression", "EnumDeclaration", "MethodDeclaration",
                   "FunctionDeclaration", "GetAccessor", "SetAccessor"}
    \/ n.kind = "SourceFile" /\ n.module

\* Text positions.  The classes that are no ancestor of the access node lie
\* before the outermost ancestor below the SourceFile; the ancestors' spans nest.
classPositions == {p \in DOMAIN ancestors : ancestors[p].class # 0}
posOfPath(p) == IF p = Len(ancestors) THEN 0 ELSE 2 * NClasses + 1 + Len(ancestors) - p
endOfPath(p) == 2 * NClasses + 2 + Len(ancestors) + p
posOfClass(c) ==
    IF \E p \in classPositions : ancestors[p].class = c
    THEN posOfPath(CHOOSE p \in classPositions : ancestors[p].class = c)
    ELSE 2 * c - 1
endOfClass(c) ==
    IF \E p \in classPositions : ancestors[p].class = c
    THEN endOfPath(CHOOSE p \in classPositions : ancestors[p].class = c)
    ELSE 2 * c

\* A this-parameter: none, one without a type, one with a class type, or one
\* whose type is a type parameter, with or without a constraint.
NoThis == [param |-> "none", constrained |-> FALSE, type |-> {}]

\* A node: its kind, for a class its number, for a class element whether it has
\* the static modifier, for a SourceFile whether it is an external module, for a
\* function-like node its this-parameter.
Node(kind, class, static, module, this) ==
    [kind |-> kind, class |-> class, static |-> static, module |-> module, this |-> this]

kindAt(p) == IF p = 0 THEN "ElementAccessExpression" ELSE ancestors[p].kind

ClassKinds == {"ClassDeclaration", "ClassExpression"}

\* ------------------------------------------------------------------ control flow
Return(message, class) ==
    /\ at' = "returned"
    /\ outcome' = [message |-> message, class |-> class]
    /\ UNCHANGED <<walk, walked>>

Enter(fn, start) ==
    /\ at' = fn
    /\ walk' = start
    /\ UNCHANGED <<outcome, walked>>

\* node = node.parent!, levels times; above the SourceFile there is no node, and
\* reading its parent or its kind throws.
Ascend(levels) ==
    /\ walked' = Append(walked, [fn |-> at, from |-> walk, to |-> walk + levels])
    /\ IF walk + levels <= Len(ancestors)
       THEN /\ walk' = walk + levels
            /\ UNCHANGED <<at, outcome>>
       ELSE /\ at' = "crashed"
            /\ UNCHANGED <<walk, outcome>>

\* line 43
outsideSpan(pos, end, classPos, classEnd) == pos < classPos \/ end > classEnd

\* lines 39-47, up to the call of findEnclosingClass
Visibility ==
    LET flags == getModifierFlagsOfSymbol(symbol)
        declaringClass == symbol[1].parent
    IN  IF flags \cap {"private", "protected"} = {} THEN Return("undefined", {})
        ELSE IF "private" \in flags
        THEN IF outsideSpan(posOfPath(0), endOfPath(0),
                            posOfClass(declaringClass), endOfClass(declaringClass))
             THEN Return("private", {declaringClass})
             ELSE Return("undefined", {})
        ELSE Enter("findEnclosingClass", 1)

\* line 29, up to the call of isStaticSuper
SuperCheck ==
    IF expression = "super" /\ "static" \notin getModifierFlagsOfSymbol(symbol)
    THEN Enter("isStaticSuper", 0)
    ELSE Visibility

\* lines 29-37, from the return of isStaticSuper
AfterStaticSuper(isStatic) ==
    IF isStatic THEN Visibility
    ELSE IF hasNonPrototypeDeclaration(symbol) THEN Return("superNonMethod", {})
    ELSE IF "abstract" \in getModifierFlagsOfSymbol(symbol) /\ abstractInEveryDeclaration(symbol)
    THEN Return("superAbstract", {symbol[1].parent})
    ELSE Visibility

\* lines 54-57
AfterEnclosingClass(enclosingClass) ==
    IF "static" \notin getModifierFlagsOfSymbol(symbol) /\ ~hasBase(lhsType, enclosingClass, "isIdentical")
    THEN Return("protectedInstance", enclosingClass)
    ELSE Return("undefined", {})

\* lines 87-98: the type getEnclosingClassFromThisParameter returns for the
\* this-parameter found, {} standing for undefined
typeOfThisParameter(this, baseClasses) ==
    IF this.param \in {"none", "untyped"} THEN {}
    ELSE IF this.param = "typeParameter" /\ ~this.constrained THEN {}
    ELSE IF \A baseClass \in baseClasses : hasBase(this.type, baseClass, "typeContainsDeclaration")
    THEN this.type
    ELSE {}

\* lines 50-53, from the return of getThisParameterFromContext
AfterThisParameter(this) ==
    LET enclosingClass == typeOfThisParameter(this, declaringClassesOf(symbol))
    IN  IF enclosingClass = {} THEN Return("protectedWithin", lhsType)
        ELSE AfterEnclosingClass(enclosingClass)

\* isStaticSuper, lines 104-120 and 128-129: the levels the walk ascends from a
\* node of this kind under a parent of that kind
staticSuperLevels(kind, parentKind) ==
    IF kind \in {"ComputedPropertyName", "ExpressionWithTypeArguments"} THEN 3
    ELSE IF kind = "Decorator"
    THEN IF parentKind \in ClassKinds THEN 2
         ELSE IF parentKind = "Parameter" THEN 4
         ELSE 3
    ELSE 1

\* getThisParameterFromContext, lines 203-221: the same for this walk
thisParameterLevels(kind, parentKind) ==
    IF kind \in {"ComputedPropertyName", "ExpressionWithTypeArguments"} THEN 3
    ELSE IF kind = "Decorator"
    THEN IF parentKind \in ClassKinds THEN 2
         ELSE IF parentKind = "Parameter" THEN 4
         ELSE 3
    ELSE 1

\* ------------------------------------------------------------------ actions
\* lines 19-25: the call, up to the first walk or the return
getRestrictedElementAccessError ==
    /\ at = "idle"
    /\ IF /\ expression = "this"
          /\ "abstract" \in getModifierFlagsOfSymbol(symbol)
          /\ hasNonPrototypeDeclaration(symbol)
       THEN Enter("getEnclosingClassOfAbstractPropertyAccess", 1)
       ELSE SuperCheck
    /\ UNCHANGED <<ancestors, baseOf, symbol, expression, lhsType, linterVars, ruleVars>>

\* lines 148-163, one iteration, and lines 26-28 on its return
getEnclosingClassOfAbstractPropertyAccess ==
    /\ at = "getEnclosingClassOfAbstractPropertyAccess"
    /\ LET node == ancestors[walk]
       IN  IF isFunctionScopeBoundary(node)
           THEN IF node.kind \in ClassKinds
                THEN Return("abstractInitialization", {node.class})
                ELSE IF node.kind = "Constructor"
                THEN Return("abstractInitialization", {ancestors[walk + 1].class})
                ELSE SuperCheck
           ELSE Ascend(1)
    /\ UNCHANGED <<ancestors, baseOf, symbol, expression, lhsType, linterVars, ruleVars>>

\* lines 100-132, one iteration
isStaticSuper ==
    /\ at = "isStaticSuper"
    /\ IF kindAt(walk) \in {"PropertyDeclaration", "MethodDeclaration", "GetAccessor", "SetAccessor"}
       THEN AfterStaticSuper(ancestors[walk].static)
       ELSE IF kindAt(walk) = "Constructor"
       THEN AfterStaticSuper(FALSE)
       ELSE Ascend(staticSuperLevels(kindAt(walk), kindAt(walk + 1)))
    /\ UNCHANGED <<ancestors, baseOf, symbol, expression, lhsType, linterVars, ruleVars>>

\* lines 64-79, one iteration, and lines 48-52 on its return
findEnclosingClass ==
    /\ at = "findEnclosingClass"
    /\ LET node == ancestors[walk]
           declaredType == getInstanceTypeOfClassLikeDeclaration(node.class)
       IN  IF /\ node.kind \in ClassKinds
              /\ \A baseClass \in declaringClassesOf(symbol) :
                    hasBase(declaredType, baseClass, "typeContainsDeclaration")
           THEN AfterEnclosingClass(declaredType)
           ELSE IF node.kind = "SourceFile"
           THEN IF "static" \notin getModifierFlagsOfSymbol(symbol)
                THEN Enter("getThisParameterFromContext", 1)
                ELSE Return("protectedWithin", lhsType)
           ELSE Ascend(1)
    /\ UNCHANGED <<ancestors, baseOf, symbol, expression, lhsType, linterVars, ruleVars>>

\* lines 186-224, one iteration, and lines 87-98 and 51-55 on its return
getThisParameterFromContext ==
    /\ at = "getThisParameterFromContext"
    /\ LET node == ancestors[walk]
       IN  IF node.kind \in {"FunctionDeclaration", "FunctionExpression", "MethodDeclaration"}
           THEN AfterThisParameter(node.this)
           ELSE IF node.kind \in ClassKinds \cup {"SetAccessor", "GetAccessor", "EnumDeclaration",
                                                  "SourceFile"}
           THEN AfterThisParameter(NoThis)
           ELSE Ascend(thisParameterLevels(kindAt(walk), kindAt(walk + 1)))
    /\ UNCHANGED <<ancestors, baseOf, symbol, expression, lhsType, linterVars, ruleVars>>

NextResolver ==
    \/ getRestrictedElementAccessError
    \/ getEnclosingClassOfAbstractPropertyAccess
    \/ isStaticSuper
    \/ findEnclosingClass
    \/ getThisParameterFromContext

\* ------------------------------------------------------------------ syntax trees
\* The kinds a node of each kind may have as a child on the way down to the
\* access node.  Nodes that every walk passes in its default case (statements,
\* blocks, plain expressions) are left out.
FunctionBody == {"ClassDeclaration", "ArrowFunction", "FunctionExpression"}

childKinds(kind) ==
    CASE kind = "SourceFile" -> FunctionBody
      [] kind = "ClassDeclaration" ->
            {"Constructor", "PropertyDeclaration", "MethodDeclaration", "GetAccessor",
             "HeritageClause", "Decorator"}
      [] kind = "Constructor" -> {"Parameter"} \cup FunctionBody
      [] kind = "MethodDeclaration" ->
            {"Parameter", "ComputedPropertyName", "Decorator"} \cup FunctionBody
      [] kind = "GetAccessor" -> {"ComputedPropertyName", "Decorator"} \cup FunctionBody
      [] kind = "PropertyDeclaration" -> {"ComputedPropertyName", "Decorator"} \cup FunctionBody
      [] kind = "FunctionExpression" -> {"Parameter"} \cup FunctionBody
      [] kind = "ArrowFunction" -> {"Parameter"} \cup FunctionBody
      [] kind = "Parameter" -> {"Decorator", "ArrowFunction", "ClassDeclaration"}
      [] kind = "HeritageClause" -> {"ExpressionWithTypeArguments"}
      [] kind = "ExpressionWithTypeArguments" -> {"ArrowFunction"}
      [] kind = "ComputedPropertyName" -> {"ArrowFunction"}
      [] kind = "Decorator" -> {"ArrowFunction"}

\* The nodes of one kind, given the classes already declared further up.
nodesOfKind(kind, used, thisParams) ==
    CASE kind = "ClassDeclaration" -> {Node(kind, c, FALSE, FALSE, NoThis) : c \in Classes \ used}
      [] kind \in {"PropertyDeclaration", "GetAccessor"} ->
            {Node(kind, 0, st, FALSE, NoThis) : st \in BOOLEAN}
      [] kind = "MethodDeclaration" ->
            {Node(kind, 0, st, FALSE, th) : st \in BOOLEAN, th \in thisParams}
      [] kind = "FunctionExpression" -> {Node(kind, 0, FALSE, FALSE, th) : th \in thisParams}
      [] OTHER -> {Node(kind, 0, FALSE, FALSE, NoThis)}

\* The ancestor chains of length n, innermost node first, over the given kinds.
RECURSIVE chainsOfLength(_, _, _)
chainsOfLength(n, kinds, thisParams) ==
    IF n = 1 THEN {<<Node("SourceFile", 0, FALSE, m, NoThis)>> : m \in BOOLEAN}
    ELSE UNION {{<<child>> \o c :
                    child \in UNION {nodesOfKind(kd, {c[p].class : p \in DOMAIN c}, thisParams) :
                                        kd \in childKinds(c[1].kind) \cap kinds}} :
                c \in chainsOfLength(n - 1, kinds, thisParams)}

\* The chains an element access can be the innermost child of.
accessSites(depth, kinds, thisParams) ==
    {c \in UNION {chainsOfLength(n, kinds, thisParams) : n \in 1..depth} :
        c[1].kind \notin {"ClassDeclaration", "HeritageClause"}}

AllKinds ==
    {"ClassDeclaration", "Constructor", "PropertyDeclaration", "MethodDeclaration", "GetAccessor",
     "FunctionExpression", "ArrowFunction", "Parameter", "HeritageClause",
     "ExpressionWithTypeArguments", "ComputedPropertyName", "Decorator"}

\* ------------------------------------------------------------------ symbols
Declaration(kind, parent, modifiers) == [kind |-> kind, parent |-> parent, modifiers |-> modifiers]

declarationsOver(kinds, parents, visibilities) ==
    {Declaration(kd, c, v \cup st \cup ab) :
        kd \in kinds, c \in parents, v \in visibilities,
        st \in {{}, {"static"}}, ab \in {{}, {"abstract"}}}

\* Symbols with one declaration.
declaredOnce(kinds, parents, visibilities) ==
    {<<d>> : d \in declarationsOver(kinds, parents, visibilities)}

\* Symbols with two declarations of one class that differ in kind or in the
\* abstract modifier (overloads, a property merged with a method).
declaredTwice(kinds, parents, visibilities) ==
    {s \in {<<d, e>> : d \in declarationsOver(kinds, parents, visibilities),
                       e \in declarationsOver(kinds, parents, visibilities)} :
        /\ s[1] # s[2]
        /\ s[1].parent = s[2].parent
        /\ s[1].modifiers \ {"abstract"} = s[2].modifiers \ {"abstract"}}

\* Symbols with one declaration in each of two classes (a member of an
\* intersection of class types).
declaredInTwoClasses(kinds, parents, visibilities) ==
    {s \in {<<d, e>> : d \in declarationsOver(kinds, parents, visibilities),
                       e \in declarationsOver(kinds, parents, visibilities)} :
        /\ s[1].parent # s[2].parent
        /\ s[1].kind = s[2].kind
        /\ s[1].modifiers = s[2].modifiers}

\* ------------------------------------------------------------------ initial states
\* No call of the linter is made.
LinterUnused ==
    /\ method = "none"
    /\ config = <<>>
    /\ iterations = 0
    /\ processor = FALSE
    /\ updProgram = FALSE
    /\ pc = "unused"
    /\ file = [text |-> OriginalText, rev |-> 0, directives |-> <<>>]
    /\ program = FALSE
    /\ content = OriginalText
    /\ totalFixes = 0
    /\ i = 0
    /\ failures = <<>>
    /\ rules = <<>>
    /\ k = 0
    /\ current = NoRule
    /\ result = <<>>
    /\ disables = NoMap
    /\ reportCalls = 0
    /\ convertedAst = FALSE
    /\ container = NoViews
    /\ passes = 0
    /\ passLog = <<>>
    /\ convertCalls = 0
    /\ updateCalls = 0
    /\ postCalls = 0
    /\ disableCalls = 0
    /\ executed = <<>>
    /\ raw = <<>>
    /\ lastCall = NoCall
    /\ roundLog = <<>>
    /\ deferred = {}
    /\ owed = {}
    /\ lastUpdate = NoUpdate
    /\ warned = <<>>
    /\ disableArgs = <<>>
    /\ constructed = <<>>
    /\ received = <<>>
    /\ queried = FALSE
    /\ linted = NoPass

\* The arguments of one call: the tree above node, the class hierarchy, the
\* symbol, the kind of node.expression, lhsType.
InitResolver(sites, hierarchies, symbols, expressions, types) ==
    /\ LinterUnused
    /\ RuleUnused
    /\ ancestors \in sites
    /\ baseOf \in hierarchies
    /\ symbol \in symbols
    /\ expression \in expressions
    /\ lhsType \in types
    /\ at = "idle"
    /\ walk = 0
    /\ walked = <<>>
    /\ outcome = NoOutcome

\* The class hierarchies: a class extends at most one class declared before it.
Hierarchies == {h \in [Classes -> 0..NClasses] : \A c \in Classes : h[c] < c}

\* The walks: every tree shape, a protected method and a protected abstract
\* property of class 1, accessed through this and through super.
WalkSymbols ==
    {<<Declaration("MethodDeclaration", 1, {"protected"})>>,
     <<Declaration("PropertyDeclaration", 1, {"protected", "abstract"})>>}

InitWalk ==
    InitResolver(accessSites(MaxDepth + 1, AllKinds, {NoThis}), {[c \in Classes |-> 0]},
                 WalkSymbols, {"this", "super"}, {{1}})

SpecWalk == InitWalk /\ [][NextResolver]_vars

\* The visibility rules: trees of classes, class elements and functions, symbols
\* of every visibility with one declaration or two in one class, accessed
\* through this, super and another expression.
PlainKinds ==
    {"ClassDeclaration", "Constructor", "PropertyDeclaration", "MethodDeclaration",
     "FunctionExpression", "ArrowFunction"}

MemberKinds == {"PropertyDeclaration", "MethodDeclaration"}

AccessSymbols ==
    declaredOnce(MemberKinds, {1, 2}, {{}, {"private"}, {"protected"}})
        \cup declaredTwice(MemberKinds, {1, 2}, {{}, {"private"}, {"protected"}})

InitAccess ==
    InitResolver(accessSites(MaxDepth - 1, PlainKinds, {NoThis}),
                 {[c \in Classes |-> 0], [c \in Classes |-> IF c = 1 THEN 0 ELSE 1]},
                 AccessSymbols, {"this", "super", "other"}, {{2}})

SpecAccess == InitAccess /\ [][NextResolver]_vars

\* The protected rule.  Protected symbols declared in class 1, in class 2 or in
\* both, every hierarchy, left-hand sides of no class type, one class type and an
\* intersection; classes nested in methods and constructors accessed through
\* this, super and another expression, and functions and methods with every
\* kind of this-parameter accessed through another expression.
ThisParameter(param, constrained, type) == [param |-> param, constrained |-> constrained, type |-> type]

ThisParams ==
    {NoThis,
     ThisParameter("untyped", FALSE, {}),
     ThisParameter("typed", FALSE, {2}),
     ThisParameter("typed", FALSE, {2, 3}),
     ThisParameter("typeParameter", TRUE, {2}),
     ThisParameter("typeParameter", FALSE, {})}

ProtectedSymbols ==
    declaredOnce(MemberKinds, {1, 2}, {{"protected"}})
        \cup declaredInTwoClasses({"MethodDeclaration"}, {1, 2}, {{"protected"}})

LhsTypes == {{}} \cup {{c} : c \in Classes} \cup {{2, 3}}

InitProtected ==
    \/ InitResolver(accessSites(MaxDepth, {"ClassDeclaration", "MethodDeclaration", "Constructor"},
                                {NoThis}),
                    Hierarchies, ProtectedSymbols, {"this", "super", "other"}, LhsTypes)
    \/ InitResolver(accessSites(MaxDepth - 1,
                                {"ClassDeclaration", "MethodDeclaration", "FunctionExpression"},
                                ThisParams),
                    Hierarchies, ProtectedSymbols, {"other"}, LhsTypes)

SpecProtected == InitProtected /\ [][NextResolver]_vars

\* ================================================================== return-await rule
MaxNesting == 4     \* statements nested in statements and functions

\* A NodeWrap, in document order: its node's kind, the async modifier of a
\* function, catchClause and finallyBlock of a try statement, whether an
\* identifier's type is promise-like, and the number of wraps from it to its
\* last descendant.
NodeWrap(kind, async, catchClause, finallyBlock, promise, size) ==
    [kind |-> kind, async |-> async, catchClause |-> catchClause,
     finallyBlock |-> finallyBlock, promise |-> promise, size |-> size]

\* wrap.next, wrap.skip and wrap.children; Len(ast) + 1 stands for undefined.
nextOf(wrap) == wrap + 1
skipOf(wrap) == wrap + ast[wrap].size

RECURSIVE childrenFrom(_, _)
childrenFrom(child, end) ==
    IF child >= end THEN <<>> ELSE <<child>> \o childrenFrom(skipOf(child), end)

childrenOf(wrap) == childrenFrom(nextOf(wrap), skipOf(wrap))

\* tsutils isFunctionWithBody
isFunctionWithBody(node) ==
    node.kind \in {"ArrowFunction", "FunctionDeclaration", "FunctionExpression",
                   "MethodDeclaration", "Constructor", "GetAccessor", "SetAccessor"}

\* lines 101-114: TRUE iff checkReturnExpression calls addFailure
failsCheck(node) == node.kind # "AwaitExpression" /\ node.promise

\* ------------------------------------------------------------------ calls
\* A call of iterate at the head of its loop body.
Iterate(wrap, end, flag) ==
    [op |-> "iterate", wrap |-> wrap, end |-> end, inTryCatch |-> flag, nodes |-> <<>>]

\* iterate between lines 67 and 68: the children of wrap are being visited.
InFunction(wrap, end, flag) ==
    [op |-> "inFunction", wrap |-> wrap, end |-> end, inTryCatch |-> flag, nodes |-> <<>>]

\* visitNode of a try statement between lines 86 and 87, and between 89 and 91.
InTryBlock(wrap) ==
    [op |-> "inTryBlock", wrap |-> wrap, end |-> 0, inTryCatch |-> FALSE, nodes |-> <<>>]
InCatchClause(wrap) ==
    [op |-> "inCatchClause", wrap |-> wrap, end |-> 0, inTryCatch |-> FALSE, nodes |-> <<>>]

\* nodes.forEach(this.visitNode, this) on top of the calls in rest
ForEach(nodes, rest) ==
    IF nodes = <<>> THEN rest
    ELSE <<[op |-> "forEach", wrap |-> 0, end |-> 0, inTryCatch |-> FALSE, nodes |-> nodes]>> \o rest

\* The calls left, and whether apply() has returned.
Continue(calls) ==
    /\ stack' = calls
    /\ rulePc' = IF calls = <<>> THEN "returned" ELSE "running"

\* line 73: while (wrap !== end), in the call at the head of the stack
LoopTo(wrap) ==
    IF wrap = Head(stack).end THEN Continue(Tail(stack))
    ELSE IF wrap > Len(ast)
    THEN /\ rulePc' = "failed"
         /\ UNCHANGED stack
    ELSE Continue(<<Iterate(wrap, Head(stack).end, Head(stack).inTryCatch)>> \o Tail(stack))

\* lines 96-98
Descend(wrap, flag, rest) ==
    IF isFunctionScopeBoundary(ast[wrap])
    THEN <<Iterate(wrap, skipOf(wrap), flag)>> \o rest
    ELSE ForEach(childrenOf(wrap), rest)

\* lines 91-94
FinallyBlock(wrap, rest) ==
    /\ inTryCatch' = FALSE
    /\ Continue(IF ast[wrap].finallyBlock
                THEN ForEach(childrenOf(childrenOf(wrap)[Len(childrenOf(wrap))]), rest)
                ELSE rest)

\* ------------------------------------------------------------------ actions
\* lines 59-61
apply ==
    /\ rulePc = "idle"
    /\ Continue(<<Iterate(1, Len(ast) + 1, FALSE)>>)
    /\ UNCHANGED <<ast, inTryCatch, bodies, checked, reported, linterVars, resolverVars>>

\* lines 65-67 and 70-73: one pass through the loop body
iterate ==
    /\ rulePc = "running"
    /\ Head(stack).op = "iterate"
    /\ LET wrap == Head(stack).wrap
       IN  IF isFunctionWithBody(ast[wrap]) /\ ast[wrap].async
           THEN /\ inTryCatch' = FALSE
                /\ bodies' = Append(bodies, wrap)
                /\ Continue(ForEach(childrenOf(wrap),
                                    <<InFunction(wrap, Head(stack).end, Head(stack).inTryCatch)>>
                                        \o Tail(stack)))
           ELSE /\ LoopTo(nextOf(wrap))
                /\ UNCHANGED <<inTryCatch, bodies>>
    /\ UNCHANGED <<ast, checked, reported, linterVars, resolverVars>>

\* lines 68-69 and 73: the children of the async function are visited
iterateAfterFunction ==
    /\ rulePc = "running"
    /\ Head(stack).op = "inFunction"
    /\ inTryCatch' = Head(stack).inTryCatch
    /\ LoopTo(skipOf(Head(stack).wrap))
    /\ UNCHANGED <<ast, bodies, checked, reported, linterVars, resolverVars>>

\* lines 76-99, up to the first forEach or iterate the call makes
visitNode ==
    /\ rulePc = "running"
    /\ Head(stack).op = "forEach"
    /\ LET wrap == Head(Head(stack).nodes)
           rest == ForEach(Tail(Head(stack).nodes), Tail(stack))
       IN  IF inTryCatch /\ ast[wrap].kind = "ReturnStatement"
           THEN IF childrenOf(wrap) = <<>>
                THEN /\ Continue(rest)
                     /\ UNCHANGED <<inTryCatch, checked, reported>>
                ELSE /\ checked' = Append(checked, wrap)
                     /\ reported' = IF failsCheck(ast[childrenOf(wrap)[1]])
                                    THEN Append(reported, wrap)
                                    ELSE reported
                     /\ Continue(<<Iterate(nextOf(wrap), skipOf(wrap), TRUE)>>
                                    \o <<[op |-> "inReturn", wrap |-> wrap, end |-> 0,
                                          inTryCatch |-> FALSE, nodes |-> <<>>]>> \o rest)
                     /\ UNCHANGED inTryCatch
           ELSE IF ~inTryCatch /\ ast[wrap].kind = "TryStatement"
           THEN /\ inTryCatch' = TRUE
                /\ Continue(ForEach(childrenOf(childrenOf(wrap)[1]), <<InTryBlock(wrap)>> \o rest))
                /\ UNCHANGED <<checked, reported>>
           ELSE /\ Continue(Descend(wrap, inTryCatch, rest))
                /\ UNCHANGED <<inTryCatch, checked, reported>>
    /\ UNCHANGED <<ast, bodies, linterVars, resolverVars>>

\* lines 82-83 and 96-98: iterate has returned to visitNode of a return statement
visitNodeAfterReturn ==
    /\ rulePc = "running"
    /\ Head(stack).op = "inReturn"
    /\ Continue(Descend(Head(stack).wrap, inTryCatch, Tail(stack)))
    /\ UNCHANGED <<ast, inTryCatch, bodies, checked, reported, linterVars, resolverVars>>

\* lines 87-94: the statements of the try block are visited
visitNodeAfterTryBlock ==
    /\ rulePc = "running"
    /\ Head(stack).op = "inTryBlock"
    /\ LET wrap == Head(stack).wrap
       IN  IF ast[wrap].catchClause
           THEN /\ inTryCatch' = ast[wrap].finallyBlock
                /\ Continue(ForEach(childrenOf(childrenOf(wrap)[2]),
                                    <<InCatchClause(wrap)>> \o Tail(stack)))
           ELSE FinallyBlock(wrap, Tail(stack))
    /\ UNCHANGED <<ast, bodies, checked, reported, linterVars, resolverVars>>

\* lines 91-94: the children of the catch clause are visited
visitNodeAfterCatchClause ==
    /\ rulePc = "running"
    /\ Head(stack).op = "inCatchClause"
    /\ FinallyBlock(Head(stack).wrap, Tail(stack))
    /\ UNCHANGED <<ast, bodies, checked, reported, linterVars, resolverVars>>

NextRule ==
    \/ apply
    \/ iterate
    \/ iterateAfterFunction
    \/ visitNode
    \/ visitNodeAfterReturn
    \/ visitNodeAfterTryBlock
    \/ visitNodeAfterCatchClause

\* ------------------------------------------------------------------ syntax trees
Identifier(promise) == <<NodeWrap("Identifier", FALSE, FALSE, FALSE, promise, 1)>>

\* return expression; <<>> for a return without expression
ReturnStatement(expr) ==
    <<NodeWrap("ReturnStatement", FALSE, FALSE, FALSE, FALSE, 1 + Len(expr))>> \o expr

Block(statements) ==
    <<NodeWrap("Block", FALSE, FALSE, FALSE, FALSE, 1 + Len(statements))>> \o statements

FunctionLike(kind, async, body) ==
    <<NodeWrap(kind, async, FALSE, FALSE, FALSE, 1 + Len(body))>> \o body

CatchClause(block) ==
    <<NodeWrap("CatchClause", FALSE, FALSE, FALSE, FALSE, 1 + Len(block))>> \o block

\* <<>> for a try statement without catch clause or without finally block
TryStatement(tryBlock, catchClause, finallyBlock) ==
    <<NodeWrap("TryStatement", FALSE, catchClause # <<>>, finallyBlock # <<>>, FALSE,
               1 + Len(tryBlock) + Len(catchClause) + Len(finallyBlock))>>
        \o tryBlock \o catchClause \o finallyBlock

\* catch { return p }, finally { return p }, and catch { return p } finally {}
Handlers ==
    {<<CatchClause(Block(ReturnStatement(Identifier(TRUE)))), <<>>>>,
     <<<<>>, Block(ReturnStatement(Identifier(TRUE)))>>,
     <<CatchClause(Block(ReturnStatement(Identifier(TRUE)))), Block(<<>>)>>}

\* The statements nested at most d deep: returns, with and without expression,
\* of identifiers and of functions; function declarations; try statements.
RECURSIVE statementsOfDepth(_)
statementsOfDepth(d) ==
    IF d = 0
    THEN {ReturnStatement(<<>>)} \cup {ReturnStatement(Identifier(p)) : p \in BOOLEAN}
    ELSE LET inner == statementsOfDepth(d - 1)
         IN  inner
             \cup {ReturnStatement(FunctionLike("ArrowFunction", a, Block(st))) :
                        a \in BOOLEAN, st \in inner}
             \cup {FunctionLike("FunctionDeclaration", a, Block(st)) : a \in BOOLEAN, st \in inner}
             \cup {TryStatement(Block(st), h[1], h[2]) : st \in inner, h \in Handlers}

\* ------------------------------------------------------------------ initial states
ResolverUnused ==
    /\ ancestors = <<>>
    /\ baseOf = <<>>
    /\ symbol = <<>>
    /\ expression = "other"
    /\ lhsType = {}
    /\ at = "unused"
    /\ walk = 0
    /\ walked = <<>>
    /\ outcome = NoOutcome

\* A file of one statement.
InitRule ==
    /\ LinterUnused
    /\ ResolverUnused
    /\ ast \in statementsOfDepth(MaxNesting)
    /\ inTryCatch = FALSE
    /\ stack = <<>>
    /\ rulePc = "idle"
    /\ bodies = <<>>
    /\ checked = <<>>
    /\ reported = <<>>

SpecRule == InitRule /\ [][NextRule]_vars

\* ------------------------------------------------------------------ claims
\* The levels step n of the walks ascended, and where it started.
levelsOf(n) == walked[n].to - walked[n].from
kindFrom(n) == kindAt(walked[n].from)
parentKindFrom(n) == kindAt(walked[n].from + 1)
contextWalks == {"isStaticSuper", "getThisParameterFromContext"}

\* C18 as stated: in isStaticSuper and getThisParameterFromContext a step from
\* a computed property name or a heritage-clause expression ascends three
\* levels, a step from a decorator four levels when the decorator's parent is a
\* parameter and three levels otherwise.
C18_Original ==
    \A n \in DOMAIN walked :
        walked[n].fn \in contextWalks =>
            /\ kindFrom(n) \in {"ComputedPropertyName", "ExpressionWithTypeArguments"} =>
                  levelsOf(n) = 3
            /\ kindFrom(n) = "Decorator" =>
                  levelsOf(n) = IF parentKindFrom(n) = "Parameter" THEN 4 ELSE 3

\* C18 amended: a step from a computed property name or a heritage-clause
\* expression ascends three levels; a step from a decorator ascends two levels
\* when the decorator's parent is a class, four when it is a parameter, three
\* when it is a class element; a step from any other node ascends one level.
C18_JumpLevels ==
    \A n \in DOMAIN walked :
        walked[n].fn \in contextWalks =>
            levelsOf(n) =
                IF kindFrom(n) \in {"ComputedPropertyName", "ExpressionWithTypeArguments"} THEN 3
                ELSE IF kindFrom(n) = "Decorator"
                THEN IF parentKindFrom(n) \in ClassKinds THEN 2
                     ELSE IF parentKindFrom(n) = "Parameter" THEN 4
                     ELSE 3
                ELSE 1

C18_Witness ==
    /\ at = "returned"
    /\ expression = "super"
    /\ \E n \in DOMAIN walked :
          /\ walked[n].fn = "isStaticSuper"
          /\ kindFrom(n) = "Decorator"
          /\ parentKindFrom(n) \in ClassKinds
          /\ levelsOf(n) = 2
          /\ kindAt(walked[n].to) = "MethodDeclaration"
    /\ \E n \in DOMAIN walked :
          /\ walked[n].fn = "getThisParameterFromContext"
          /\ kindFrom(n) = "Decorator"
          /\ parentKindFrom(n) \in ClassKinds

\* ------------------------------------------------------------------ C14
earlierMessages == {"abstractInitialization", "superNonMethod", "superAbstract"}

\* The access node lies within class c: c is one of its ancestors.
withinClass(c) == \E p \in DOMAIN ancestors : ancestors[p].kind \in ClassKinds /\ ancestors[p].class = c

C14_Inv ==
    "private" \in getModifierFlagsOfSymbol(symbol) =>
        /\ at = "returned" /\ outcome.message \notin earlierMessages =>
              IF withinClass(symbol[1].parent)
              THEN outcome.message = "undefined"
              ELSE outcome = [message |-> "private", class |-> {symbol[1].parent}]
        /\ expression = "other" => at \in {"idle", "returned"}

\* C14: an access to a private member that the abstract and super checks let
\* pass returns undefined exactly when the access node lies within the
\* declaring class, and otherwise the private message naming the declaring
\* class; an access through another expression reaches that answer at once.
C14_PrivateWithinDeclaringClass == C14_Inv

\* this[x] in a method of class 2, which extends class 1, where x is private.
C14_Witness ==
    /\ at = "returned"
    /\ expression = "this"
    /\ Len(symbol) = 1
    /\ symbol[1] = Declaration("PropertyDeclaration", 1, {"private"})
    /\ baseOf[2] = 1
    /\ Len(ancestors) = 3
    /\ ancestors[1].kind = "MethodDeclaration"
    /\ ancestors[2].kind = "ClassDeclaration" /\ ancestors[2].class = 2
    /\ outcome = [message |-> "private", class |-> {1}]

\* ------------------------------------------------------------------ C16
classElementPositions ==
    {p \in DOMAIN ancestors :
        ancestors[p].kind \in {"PropertyDeclaration", "MethodDeclaration", "GetAccessor",
                               "SetAccessor", "Constructor"}}

\* The class element or constructor the access node is in, innermost first.
nearestClassElement == CHOOSE p \in classElementPositions : \A q \in classElementPositions : p <= q

inStaticContext ==
    /\ classElementPositions # {}
    /\ ancestors[nearestClassElement].kind # "Constructor"
    /\ ancestors[nearestClassElement].static

superMessages == {"superNonMethod", "superAbstract"}

C16_Inv ==
    LET flags == UNION {symbol[n].modifiers : n \in DOMAIN symbol}
        applies == expression = "super" /\ "static" \notin flags /\ ~inStaticContext
        nonMethod ==
            \E n \in DOMAIN symbol :
                symbol[n].kind \notin {"MethodDeclaration", "MethodSignature", "GetAccessor", "SetAccessor"}
        everyAbstract == \A n \in DOMAIN symbol : "abstract" \in symbol[n].modifiers
    IN  /\ at = "returned" =>
              IF applies /\ nonMethod THEN outcome = [message |-> "superNonMethod", class |-> {}]
              ELSE IF applies /\ everyAbstract
              THEN outcome = [message |-> "superAbstract", class |-> {symbol[1].parent}]
              ELSE outcome.message \notin superMessages
        /\ expression = "super" /\ classElementPositions # {} => at # "crashed"

\* C16: a super access to a non-static member from a class element that is
\* not static returns the methods-and-accessors message when the member has a
\* declaration that is neither method nor accessor, else the abstract-via-super
\* message naming the declaring class when every declaration is abstract,
\* whatever the member's visibility; for a static member, a static class
\* element or another expression neither message is returned.
C16_SuperMessages == C16_Inv

\* super[m] in a method of class 2 where m is protected and abstract in class 1.
C16_Witness ==
    /\ at = "returned"
    /\ expression = "super"
    /\ Len(symbol) = 1
    /\ symbol[1] = Declaration("MethodDeclaration", 1, {"protected", "abstract"})
    /\ Len(ancestors) = 3
    /\ ancestors[1].kind = "MethodDeclaration" /\ ~ancestors[1].static
    /\ ancestors[2].kind = "ClassDeclaration" /\ ancestors[2].class = 2
    /\ outcome = [message |-> "superAbstract", class |-> {1}]

\* ------------------------------------------------------------------ C17
scopePositions ==
    {p \in DOMAIN ancestors :
        \/ ancestors[p].kind \in {"ClassDeclaration", "ClassExpression", "Constructor",
                                  "MethodDeclaration", "GetAccessor", "SetAccessor",
                                  "FunctionDeclaration", "FunctionExpression", "ArrowFunction",
                                  "ModuleDeclaration", "EnumDeclaration"}
        \/ ancestors[p].kind = "SourceFile" /\ ancestors[p].module}

\* The class, function or module the access node is directly in.
nearestScope == CHOOSE p \in scopePositions : \A q \in scopePositions : p <= q

onlyMethodsAndAccessors ==
    \A n \in DOMAIN symbol :
        symbol[n].kind \in {"MethodDeclaration", "MethodSignature", "GetAccessor", "SetAccessor"}

abstractMember == \E n \in DOMAIN symbol : "abstract" \in symbol[n].modifiers

withinDeclaringClass == \E n \in DOMAIN symbol : withinClass(symbol[n].parent)

\* The claim as stated: a this access to an abstract member all of whose
\* declarations are methods or accessors is flagged anywhere in the declaring
\* class's body, and nothing outside that body is flagged.
C17_Original ==
    at = "returned" =>
        /\ expression = "this" /\ abstractMember /\ onlyMethodsAndAccessors /\ withinDeclaringClass
                => outcome.message = "abstractInitialization"
        /\ outcome.message = "abstractInitialization"
                => expression = "this" /\ withinDeclaringClass

C17_Inv ==
    LET candidate == expression = "this" /\ abstractMember /\ ~onlyMethodsAndAccessors /\ scopePositions # {}
    IN  at = "returned" =>
            IF candidate /\ ancestors[nearestScope].kind \in ClassKinds
            THEN outcome = [message |-> "abstractInitialization", class |-> {ancestors[nearestScope].class}]
            ELSE IF candidate /\ ancestors[nearestScope].kind = "Constructor"
            THEN outcome = [message |-> "abstractInitialization",
                            class |-> {ancestors[nearestScope + 1].class}]
            ELSE outcome.message # "abstractInitialization"

\* C17: a this access to an abstract member that has a declaration which is
\* neither method nor accessor returns the class-initialization message, before
\* any other check, exactly when the class, function or module the access is
\* directly in is a class (a property initializer) or a constructor, and the
\* message names that class, declaring or not; in a method, an accessor, a
\* function or an arrow function the message is not returned.
C17_AbstractDuringInitialization == C17_Inv

\* this[x] in the constructor of class 2, which extends class 1, where x is an
\* abstract protected property of class 1.
C17_Witness ==
    /\ at = "returned"
    /\ expression = "this"
    /\ Len(symbol) = 1
    /\ symbol[1] = Declaration("PropertyDeclaration", 1, {"protected", "abstract"})
    /\ baseOf[2] = 1
    /\ Len(ancestors) = 3
    /\ ancestors[1].kind = "Constructor"
    /\ ancestors[2].kind = "ClassDeclaration" /\ ancestors[2].class = 2
    /\ outcome = [message |-> "abstractInitialization", class |-> {2}]

\* ------------------------------------------------------------------ C15
\* Class c and the classes it inherits from.
RECURSIVE superclasses(_)
superclasses(c) == IF c = 0 THEN {} ELSE {c} \cup superclasses(baseOf[c])

\* Type t is or inherits from every class that declares the symbol.
derivesFromDeclaringClasses(t) ==
    \A n \in DOMAIN symbol : \E c \in t : symbol[n].parent \in superclasses(c)

satisfyingClassPositions ==
    {p \in DOMAIN ancestors :
        ancestors[p].kind \in ClassKinds /\ derivesFromDeclaringClasses({ancestors[p].class})}

nearestSatisfyingClass ==
    CHOOSE p \in satisfyingClassPositions : \A q \in satisfyingClassPositions : p <= q

\* The nodes that bind this: functions and methods, which may declare a
\* this-parameter, and classes, accessors, enums and the SourceFile, which do not.
thisBinderPositions ==
    {p \in DOMAIN ancestors :
        ancestors[p].kind \in {"FunctionDeclaration", "FunctionExpression", "MethodDeclaration",
                               "ClassDeclaration", "ClassExpression", "GetAccessor", "SetAccessor",
                               "EnumDeclaration", "SourceFile"}}

nearestThisBinder == CHOOSE p \in thisBinderPositions : \A q \in thisBinderPositions : p <= q

\* The class type of the explicit this-parameter in effect, {} if there is none.
boundThisType ==
    LET n == ancestors[nearestThisBinder]
    IN  IF /\ n.kind \in {"FunctionDeclaration", "FunctionExpression", "MethodDeclaration"}
           /\ \/ n.this.param = "typed"
              \/ n.this.param = "typeParameter" /\ n.this.constrained
        THEN n.this.type
        ELSE {}

staticMember == \E n \in DOMAIN symbol : "static" \in symbol[n].modifiers

\* (a): the class the access is resolved to, {} if there is none.
resolvedClass ==
    IF satisfyingClassPositions # {} THEN {ancestors[nearestSatisfyingClass].class}
    ELSE IF ~staticMember /\ boundThisType # {} /\ derivesFromDeclaringClasses(boundThisType)
    THEN boundThisType
    ELSE {}

\* (b): lhsType is the resolved class, inherits from it, or is an intersection
\* with such a member.
throughInstanceOfResolved == \E c \in lhsType : \E b \in superclasses(c) : {b} = resolvedClass

protectedPermitted == resolvedClass # {} /\ (staticMember \/ throughInstanceOfResolved)

protectedMember ==
    LET flags == UNION {symbol[n].modifiers : n \in DOMAIN symbol}
    IN  "protected" \in flags /\ "private" \notin flags

\* The claim as stated: every access to a protected member is permitted exactly
\* when (a) and (b) hold.
C15_Original ==
    at = "returned" /\ protectedMember => (outcome.message = "undefined" <=> protectedPermitted)

C15_Inv ==
    protectedMember =>
        /\ at = "returned" /\ outcome.message \notin earlierMessages =>
              IF resolvedClass = {} THEN outcome = [message |-> "protectedWithin", class |-> lhsType]
              ELSE IF ~protectedPermitted
              THEN outcome = [message |-> "protectedInstance", class |-> resolvedClass]
              ELSE outcome.message = "undefined"
        /\ expression = "other" => at # "crashed"

\* C15: an access to a protected member that the abstract and super checks let
\* pass is permitted exactly when (a) the nearest enclosing class that is or
\* inherits from every declaring class exists, or for a non-static member the
\* type of the explicit this-parameter in effect does so, and (b) the member is
\* static or lhsType is or inherits from the class resolved in (a); failing (a)
\* the message names lhsType, failing (b) the resolved class.
C15_ProtectedThroughEnclosingClass == C15_Inv

\* other[x] in a method of class 2, which extends class 1, where x is a
\* protected method of class 1 and other has type class 1.
C15_Witness ==
    /\ at = "returned"
    /\ expression = "other"
    /\ lhsType = {1}
    /\ symbol = <<Declaration("MethodDeclaration", 1, {"protected"})>>
    /\ baseOf[2] = 1
    /\ Len(ancestors) = 3
    /\ ancestors[1].kind = "MethodDeclaration"
    /\ ancestors[2].kind = "ClassDeclaration" /\ ancestors[2].class = 2
    /\ outcome = [message |-> "protectedInstance", class |-> {2}]

\* ------------------------------------------------------------------ C22
\* C22: every walk of the resolver ends with a result and no step of a walk
\* leads above the SourceFile, the root of the tree.
C22_Original ==
    /\ at # "crashed"
    /\ \A n \in DOMAIN walked : walked[n].to <= Len(ancestors)

\* super[x] in a decorator of a class declared at the top level: isStaticSuper
\* ascends two levels to the SourceFile and one more from there.
C22_Witness ==
    /\ at = "crashed"
    /\ expression = "super"
    /\ Len(ancestors) = 3
    /\ ancestors[1].kind = "Decorator"
    /\ ancestors[2].kind = "ClassDeclaration"
    /\ ancestors[3].kind = "SourceFile"
    /\ walked = <<[fn |-> "isStaticSuper", from |-> 0, to |-> 1],
                  [fn |-> "isStaticSuper", from |-> 1, to |-> 3],
                  [fn |-> "isStaticSuper", from |-> 3, to |-> 4]>>

\* ------------------------------------------------------------------ C23
asyncFunctions == {n \in DOMAIN ast : isFunctionWithBody(ast[n]) /\ ast[n].async}

timesIn(s, x) == Cardinality({n \in DOMAIN s : s[n] = x})

\* C23: in one apply() the body of every async function is visited exactly
\* once, and no return statement is passed to checkReturnExpression, or
\* reported, more than once.
C23_Original ==
    /\ \A w \in DOMAIN ast : timesIn(checked, w) <= 1 /\ timesIn(reported, w) <= 1
    /\ \A f \in asyncFunctions : timesIn(bodies, f) <= 1
    /\ rulePc = "returned" => \A f \in asyncFunctions : timesIn(bodies, f) = 1

\* async function f() { try { return async () => { try { return p } catch { return p } } }
\* catch { return p } }: the inner return p is reported twice.
C23_Witness ==
    /\ rulePc = "returned"
    /\ ast = FunctionLike("FunctionDeclaration", TRUE,
                Block(TryStatement(
                    Block(ReturnStatement(FunctionLike("ArrowFunction", TRUE,
                        Block(TryStatement(Block(ReturnStatement(Identifier(TRUE))),
                                           CatchClause(Block(ReturnStatement(Identifier(TRUE)))),
                                           <<>>))))),
                    CatchClause(Block(ReturnStatement(Identifier(TRUE)))),
                    <<>>)))
    /\ bodies = <<1, 6, 6>>
    /\ checked = <<5, 10, 10>>
    /\ reported = <<10, 10>>

====
